---- MODULE Spec2Model ----
(***************************************************************************)
(* Model of the pentamind routing pipeline                                 *)
(* (backend/agent/langgraph_flow.py, driven by backend/main.py run_jury).  *)
(*                                                                         *)
(* One request is one run of the LangGraph workflow                        *)
(*   classify_task -> choose_model -> execute -> verify                    *)
(*                 -> (fallback -> END | END)                              *)
(* over a GraphState record.  Every node is an operator that returns the   *)
(* partial update dict the Python node returns; the graph merges it into   *)
(* the state.  The replies of the external providers (DigitalOcean         *)
(* inference, Gemini, Perplexity) are the nondeterministic inputs.         *)
(*                                                                         *)
(* Encodings                                                               *)
(*   Optional[T]  : <<>> is None, <<v>> is the value v.                    *)
(*   text         : a sequence of tokens; "" is <<>>.  Substring search,   *)
(*                  startswith, strip and json.loads work on tokens.       *)
(*   float        : tenths (quality 0.9 is 9, confidence 0.3 is 3).        *)
(*   dict         : a record; dicts with different keys are records with   *)
(*                  different domains.                                     *)
(***************************************************************************)
EXTENDS Integers, Sequences, FiniteSets, TLC

VARIABLES
    pc,        \* position of the request: "request", a node name, "END", "returned", "raised"
    state,     \* the GraphState of the run, built from the request's task, input, mode
    env,       \* the process environment: the three API keys
    stages,    \* history: the nodes invoked so far, in order
    calls,     \* history: the adapter calls made so far, in order
    response,  \* what run_jury hands back: <<>> until it returns or raises
    runs       \* the requests served side by side (PairSpec); empty in Spec

vars == <<pc, state, env, stages, calls, response, runs>>

--------------------------------------------------------------------------
(* Optional values *)

None == <<>>

Some(v) == <<v>>

--------------------------------------------------------------------------
(* Bounds and sample inputs *)

\* the search adapter is asked for max_results=5; the model lets it return
\* between 0 and MaxSources results
MaxSources == 2

\* tokens that str.strip() removes
Whitespace == {" ", "\n"}

\* generated texts the chat backends may return (never empty)
Contents ==
    { <<"x">>,                      \* plain prose
      <<" ">>,                      \* only whitespace
      <<"{", "}">>,                 \* the JSON document {}
      <<"{", "x">>,                 \* "{not json"
      <<"---", "x", "+++", "x">>,   \* a unified diff
      <<"diff", "x">> }             \* text starting with the word diff

\* the latency a provider reports for a successful call, in ms
Latencies == {120}

\* user inputs: one token that stands for a text of the given number of characters
InputChars ==
    [ t \in {"<input:12>", "<input:40004>"} |->
        CASE t = "<input:12>"    -> 12
          [] t = "<input:40004>" -> 40004 ]

\* Python: len(text) in characters, for a user input
len(text) == InputChars[text[1]]

--------------------------------------------------------------------------
(* Text operations used by the nodes *)

\* the empty dict {} as a record without fields
EmptyDict == [k \in {} |-> TRUE]

\* minified JSON objects a backend may write as one token, with their parsed value
JsonDocs ==
    [ t \in { "{\"intent\":\"code\",\"format\":\"diff\",\"needs_citations\":false,\"confidence\":0.9}",
              "{\"intent\":\"reasoning\",\"format\":\"json\",\"needs_citations\":true,\"confidence\":0.8}",
              "{\"intent\":\"general\",\"format\":\"text\"}",
              "{\"intent\":\"general\",\"format\":\"text\",\"confidence\":1.5}",
              "{\"intent\":\"chat\",\"format\":\"text\",\"confidence\":0.9}",
              "{\"format\":\"json\",\"confidence\":0.9}" } |->
        CASE t = "{\"intent\":\"code\",\"format\":\"diff\",\"needs_citations\":false,\"confidence\":0.9}"
               -> [intent |-> "code", format |-> "diff", needs_citations |-> FALSE, confidence |-> 9]
          [] t = "{\"intent\":\"reasoning\",\"format\":\"json\",\"needs_citations\":true,\"confidence\":0.8}"
               -> [intent |-> "reasoning", format |-> "json", needs_citations |-> TRUE, confidence |-> 8]
          [] t = "{\"intent\":\"general\",\"format\":\"text\"}"
               -> [intent |-> "general", format |-> "text"]
          [] t = "{\"intent\":\"general\",\"format\":\"text\",\"confidence\":1.5}"
               -> [intent |-> "general", format |-> "text", confidence |-> 15]
          [] t = "{\"intent\":\"chat\",\"format\":\"text\",\"confidence\":0.9}"
               -> [intent |-> "chat", format |-> "text", confidence |-> 9]
          [] t = "{\"format\":\"json\",\"confidence\":0.9}"
               -> [format |-> "json", confidence |-> 9] ]

\* Python: tok in text
Contains(text, tok) == \E i \in 1..Len(text) : text[i] = tok

\* Python: text.startswith(tok)
StartsWith(text, tok) == Len(text) > 0 /\ text[1] = tok

RECURSIVE lstrip(_)
lstrip(text) ==
    IF Len(text) > 0 /\ text[1] \in Whitespace THEN lstrip(Tail(text)) ELSE text

RECURSIVE rstrip(_)
rstrip(text) ==
    IF Len(text) > 0 /\ text[Len(text)] \in Whitespace
    THEN rstrip(SubSeq(text, 1, Len(text) - 1))
    ELSE text

\* Python: text.strip()
strip(text) == rstrip(lstrip(text))

IsWhitespace(tok) == tok \in Whitespace

IsNotWhitespace(tok) == ~ IsWhitespace(tok)

\* Python: json.loads(text) does not raise.  Over the token alphabet of the
\* model the only JSON document is {} with optional whitespace around and
\* between the braces.
json_loads_ok(text) ==
    \/ SelectSeq(text, IsNotWhitespace) = <<"{", "}">>
    \/ /\ Len(SelectSeq(text, IsNotWhitespace)) = 1
       /\ SelectSeq(text, IsNotWhitespace)[1] \in DOMAIN JsonDocs

\* Python: the value json.loads(text) returns when it does not raise
json_loads(text) ==
    IF SelectSeq(text, IsNotWhitespace) = <<"{", "}">> THEN EmptyDict
    ELSE JsonDocs[SelectSeq(text, IsNotWhitespace)[1]]

\* Python: "\n".join(lines), each line a text
RECURSIVE join(_)
join(lines) ==
    IF Len(lines) = 0 THEN <<>>
    ELSE IF Len(lines) = 1 THEN lines[1]
    ELSE lines[1] \o <<"\n">> \o join(Tail(lines))

\* Python: str(i) inside "[{i}]" for the citation numbers
IndexTag == <<"[1]", "[2]", "[3]", "[4]", "[5]">>

\* Python: str(i) in the search context handed to the model
NumTag == <<"1", "2", "3", "4", "5">>

--------------------------------------------------------------------------
(* Program constants: agent/langgraph_flow.py *)

ROUTER_MODEL == "llama3-8b-instruct"

TASK_MODELS ==
    [ summarize |-> "gemini",
      research  |-> "perplexity",
      solve     |-> "deepseek-r1-distill-llama-70b",
      code      |-> "anthropic-claude-sonnet-4",
      rewrite   |-> "mistral-small-3.1-24b-instruct" ]

FALLBACK_MODEL == "llama3.3-70b-instruct"

LONG_CONTEXT_THRESHOLD == 10000

ROUTER_SYSTEM_PROMPT == "You are a task classifier. ..."

TASK_PROMPTS ==
    [ summarize |-> "You are an expert summarizer. ...",
      research  |-> "You are a research assistant with access to current web information. ...",
      solve     |-> "You are a reasoning expert. ...",
      code      |-> "You are an expert software engineer. ...",
      rewrite   |-> "You are a skilled editor. ..." ]

MODEL_NAMES ==
    [ m \in { "anthropic-claude-sonnet-4", "deepseek-r1-distill-llama-70b",
              "mistral-small-3.1-24b-instruct", "llama3.3-70b-instruct" } |->
        CASE m = "anthropic-claude-sonnet-4"       -> "Claude Sonnet 4"
          [] m = "deepseek-r1-distill-llama-70b"   -> "DeepSeek R1"
          [] m = "mistral-small-3.1-24b-instruct"  -> "Mistral Small"
          [] m = "llama3.3-70b-instruct"           -> "Llama 3.3 70B" ]

\* Python: Message(role="system", ...), Message(role="user", ...)
Message(role, content) == [role |-> role, content |-> content]

--------------------------------------------------------------------------
(* What the providers may answer *)

\* a reply of a chat provider as the adapter sees it on the wire
Replies ==
    { [kind |-> "timeout"], [kind |-> "status", code |-> 500], [kind |-> "malformed"] }
    \cup { [kind |-> "ok", content |-> c, latency_ms |-> l] :
              c \in Contents \cup {<<>>}, l \in Latencies }

Docs == 1..MaxSources

SearchHit(d) ==
    [ title   |-> <<"title", IndexTag[d]>>,
      url     |-> <<"url", IndexTag[d]>>,
      snippet |-> IF d = 1 THEN <<>> ELSE <<"snippet", IndexTag[d]>> ]

\* result lists without repetition, in any order, of length 0..MaxSources
HitLists ==
    UNION { { s \in [1..n -> Docs] : \A i, j \in 1..n : i # j => s[i] # s[j] } :
              n \in 0..MaxSources }

SearchReplies ==
    { [kind |-> "error"] } \cup { [kind |-> "ok", hits |-> h] : h \in HitLists }

--------------------------------------------------------------------------
(* Adapters *)

\* a key read by os.environ.get that "not key" rejects
Falsy(key) == key = None \/ key = Some("")

\* call_model.py get_model_access_key: raises ModelAPIError when the key is unset
get_model_access_key(e) ==
    IF Falsy(e.MODEL_ACCESS_KEY)
    THEN [ok |-> FALSE, raised |-> "ModelAPIError",
          error |-> "MODEL_ACCESS_KEY environment variable not set"]
    ELSE [ok |-> TRUE, key |-> e.MODEL_ACCESS_KEY[1]]

\* call_model.py call_do_chat_completion: a ModelCallResult, or ModelAPIError
call_do_chat_completion(e, model, messages, reply) ==
    IF ~ get_model_access_key(e).ok THEN get_model_access_key(e)
    ELSE IF reply.kind = "timeout"
        THEN [ok |-> FALSE, raised |-> "ModelAPIError", error |-> "Request timeout"]
    ELSE IF reply.kind = "status"
        THEN [ok |-> FALSE, raised |-> "ModelAPIError", error |-> "API returned status"]
    ELSE IF reply.kind = "malformed"
        THEN [ok |-> FALSE, raised |-> "ModelAPIError", error |-> "Failed to parse JSON response"]
    ELSE IF reply.content = <<>>
        THEN [ok |-> FALSE, raised |-> "ModelAPIError", error |-> "Empty content in API response"]
    ELSE [ok |-> TRUE, content |-> reply.content, latency_ms |-> reply.latency_ms,
          model |-> model]

\* gemini_client.py get_gemini_key / is_gemini_available
is_gemini_available(e) == e.GEMINI_API_KEY # None

\* gemini_client.py get_appropriate_gemini_model
get_appropriate_gemini_model(input_length) ==
    LET estimated_tokens == input_length \div 4 IN
    IF estimated_tokens > 100000 THEN "gemini-2.5-pro"
    ELSE IF estimated_tokens > 10000 THEN "gemini-2.5-pro"
    ELSE "gemini-2.5-flash"

\* gemini_client.py call_gemini: a result dict, or GeminiError.  An empty
\* text part is returned as content "" without an error.
call_gemini(e, model, messages, reply) ==
    IF Falsy(e.GEMINI_API_KEY)
        THEN [ok |-> FALSE, raised |-> "GeminiError", error |-> "GEMINI_API_KEY not set"]
    ELSE IF reply.kind = "timeout"
        THEN [ok |-> FALSE, raised |-> "GeminiError", error |-> "Request failed"]
    ELSE IF reply.kind = "status"
        THEN [ok |-> FALSE, raised |-> "GeminiError", error |-> "API returned"]
    ELSE IF reply.kind = "malformed"
        THEN [ok |-> FALSE, raised |-> "GeminiError", error |-> "Unexpected error"]
    ELSE [ok |-> TRUE, content |-> reply.content, latency_ms |-> reply.latency_ms,
          model |-> model]

\* perplexity_search.py get_perplexity_key (truthiness is tested by the callers)
get_perplexity_key(e) == e.PERPLEXITY_API_KEY

\* perplexity_search.py search_with_perplexity: a search_data dict, or PerplexityError
search_with_perplexity(e, query, max_results, sreply) ==
    IF Falsy(get_perplexity_key(e))
        THEN [ok |-> FALSE, raised |-> "PerplexityError",
              error |-> "PERPLEXITY_API_KEY not configured"]
    ELSE IF sreply.kind = "error"
        THEN [ok |-> FALSE, raised |-> "PerplexityError", error |-> "Search failed"]
    ELSE [ok |-> TRUE, success |-> TRUE, query |-> query,
          results |-> [i \in 1..Len(sreply.hits) |-> SearchHit(sreply.hits[i])],
          count |-> Len(sreply.hits)]

\* the lines format_search_results_for_llm writes for result i
HitLines(results, i) ==
    << <<NumTag[i], ". ">> \o results[i].title,
       <<"   URL: ">> \o results[i].url >>
    \o (IF results[i].snippet # <<>> THEN << <<"   ">> \o results[i].snippet >> ELSE << >>)
    \o << <<>> >>

RECURSIVE AllHitLines(_, _)
AllHitLines(results, i) ==
    IF i > Len(results) THEN << >>
    ELSE HitLines(results, i) \o AllHitLines(results, i + 1)

\* perplexity_search.py format_search_results_for_llm
format_search_results_for_llm(search_data) ==
    IF ~ search_data.success THEN <<"No search results available.">>
    ELSE IF Len(search_data.results) = 0 THEN <<"No search results found.">>
    ELSE join( << <<"Search Results for: ">> \o search_data.query,
                  <<"Found ", NumTag[Len(search_data.results)], " relevant sources:">>,
                  <<>> >>
               \o AllHitLines(search_data.results, 1) )

--------------------------------------------------------------------------
(* agent/types.py *)

\* TraceStep(step=..., model=..., latency_ms=..., data=...) with its defaults
TraceStep(step, model, latency_ms, data) ==
    [step |-> step, model |-> model, latency_ms |-> latency_ms, data |-> data]

\* ScoreboardEntry(model=..., cost_tier=..., notes=...): quality 0.0, latency_ms 0
ScoreboardEntry(model, cost_tier, notes) ==
    [model |-> model, quality |-> 0, latency_ms |-> 0, cost_tier |-> cost_tier,
     notes |-> notes]

\* TaskSpec(intent=..., format=..., needs_citations=..., confidence=...)
TaskSpec(intent, format, needs_citations, confidence) ==
    [intent |-> intent, format |-> format, needs_citations |-> needs_citations,
     confidence |-> confidence]

\* variant of TaskSpecValid: intent and format are required but any value passes
TaskSpecValid_AnyValue(data) ==
    /\ "intent" \in DOMAIN data
    /\ "format" \in DOMAIN data

\* TaskSpec(**data) validates: intent and format are required Literals
TaskSpecValid(data) ==
    /\ "intent" \in DOMAIN data
    /\ data.intent \in {"code", "reasoning", "general"}
    /\ "format" \in DOMAIN data
    /\ data.format \in {"text", "diff", "json"}

\* TaskSpec(**data): needs_citations defaults to False, confidence to 0.0;
\* confidence is a float field without a range constraint
TaskSpecFrom(data) ==
    TaskSpec(data.intent, data.format,
             IF "needs_citations" \in DOMAIN data THEN data.needs_citations ELSE FALSE,
             IF "confidence" \in DOMAIN data THEN data.confidence ELSE 0)

\* GraphState(task=..., input=..., mode=..., trace=[], scoreboard=[])
GraphState(task, input, mode) ==
    [ task |-> task, input |-> input, mode |-> mode,
      task_spec |-> None, chosen_model |-> None, result |-> None,
      verification_passed |-> FALSE, fallback_attempted |-> FALSE,
      scoreboard |-> << >>, trace |-> << >> ]

\* LangGraph writes the keys a node returns into the state and keeps the others
Merge(st, upd) ==
    [k \in DOMAIN st |-> IF k \in DOMAIN upd THEN upd[k] ELSE st[k]]

\* the record of one adapter call, kept in the history variable calls: who
\* called which adapter with what, whether the adapter returned (ok) or
\* raised, the content it returned ("" when it raised), the message of
\* the exception it raised ("" when it returned) and, for a search call, the
\* results it returned
Call(stage, adapter, model, messages, res) ==
    [ stage |-> stage, adapter |-> adapter, model |-> model, messages |-> messages,
      ok |-> res.ok,
      text |-> IF res.ok /\ "content" \in DOMAIN res THEN res.content ELSE <<>>,
      error |-> IF ~ res.ok /\ "error" \in DOMAIN res THEN res.error ELSE "",
      results |-> IF res.ok /\ "results" \in DOMAIN res THEN res.results ELSE << >> ]

--------------------------------------------------------------------------
(* Node: classify_task *)

classify_task(e, st, reply) ==
    LET user_prompt == <<"Task type: ", st.task, "\nUser input: ">> \o st.input
        messages == << Message("system", <<ROUTER_SYSTEM_PROMPT>>),
                       Message("user", user_prompt) >>
        result == call_do_chat_completion(e, ROUTER_MODEL, messages, reply)
        made == << Call("classify_task", "do", ROUTER_MODEL, messages, result) >>
    IN
    IF result.ok
    THEN
        LET parsed_ok == /\ json_loads_ok(strip(result.content))
                         /\ TaskSpecValid(json_loads(strip(result.content)))
            task_spec == IF parsed_ok
                         THEN TaskSpecFrom(json_loads(strip(result.content)))
                         ELSE TaskSpec("general", "text", FALSE, 5)
            trace_step == TraceStep("classify_task", Some(ROUTER_MODEL),
                                    result.latency_ms, task_spec)
        IN [ upd |-> [task_spec |-> Some(task_spec),
                      trace |-> Append(st.trace, trace_step)],
             calls |-> made, raised |-> None ]
    ELSE
        LET task_spec == TaskSpec("general", "text", FALSE, 3)
            trace_step == TraceStep("classify_task", Some(ROUTER_MODEL), 0,
                                    [error |-> result.error, fallback |-> task_spec])
        IN [ upd |-> [task_spec |-> Some(task_spec),
                      trace |-> Append(st.trace, trace_step)],
             calls |-> made, raised |-> None ]

--------------------------------------------------------------------------
(* Node: choose_model *)

\* variant of ChooseBackend: the code branch reads the entry of solve
ChooseBackend_CodeReadsSolve(e, task, input_length) ==
    IF task = "summarize" THEN
        IF is_gemini_available(e)
        THEN "gemini:" \o get_appropriate_gemini_model(input_length)
        ELSE FALLBACK_MODEL
    ELSE IF task = "research" THEN "perplexity"
    ELSE IF task = "solve" THEN TASK_MODELS["solve"]
    ELSE IF task = "code" THEN TASK_MODELS["solve"]
    ELSE IF task = "rewrite" THEN TASK_MODELS["rewrite"]
    ELSE FALLBACK_MODEL

\* variant of ChooseBackend: an unknown task is given the router's own model
ChooseBackend_UnknownGetsRouter(e, task, input_length) ==
    IF task = "summarize" THEN
        IF is_gemini_available(e)
        THEN "gemini:" \o get_appropriate_gemini_model(input_length)
        ELSE FALLBACK_MODEL
    ELSE IF task = "research" THEN "perplexity"
    ELSE IF task = "solve" THEN TASK_MODELS["solve"]
    ELSE IF task = "code" THEN TASK_MODELS["code"]
    ELSE IF task = "rewrite" THEN TASK_MODELS["rewrite"]
    ELSE ROUTER_MODEL

\* choose_model, lines 153-193: the if/elif chain that sets chosen
ChooseBackend(e, task, input_length) ==
    IF task = "summarize" THEN
        IF is_gemini_available(e)
        THEN "gemini:" \o get_appropriate_gemini_model(input_length)
        ELSE FALLBACK_MODEL
    ELSE IF task = "research" THEN "perplexity"
    ELSE IF task = "solve" THEN TASK_MODELS["solve"]
    ELSE IF task = "code" THEN TASK_MODELS["code"]
    ELSE IF task = "rewrite" THEN TASK_MODELS["rewrite"]
    ELSE FALLBACK_MODEL

\* choose_model, lines 197-224: the scoreboard of the five task models.
\* The winner mark is the check mark U+2713 in the source, "(won)" here.
RouterScoreboard(task) ==
    << ScoreboardEntry("Gemini 1.5 Pro", "low",
           IF task = "summarize" THEN "(won) Summarize" ELSE "Summarization"),
       ScoreboardEntry("Perplexity", "low",
           IF task = "research" THEN "(won) Research" ELSE "Web search + citations"),
       ScoreboardEntry("DeepSeek R1", "med",
           IF task = "solve" THEN "(won) Solve" ELSE "Reasoning & math"),
       ScoreboardEntry("Claude Sonnet 4", "high",
           IF task = "code" THEN "(won) Code" ELSE "Code generation"),
       ScoreboardEntry("Mistral Small", "med",
           IF task = "rewrite" THEN "(won) Rewrite" ELSE "Text editing") >>

\* variant of choose_model: a code intent overrides the task's backend
choose_model_IntentOverrides(e, st) ==
    LET task == st.task
        task_spec == st.task_spec[1]
        input_length == len(st.input)
        chosen == IF task_spec.intent = "code" THEN TASK_MODELS["code"]
                  ELSE ChooseBackend(e, task, input_length)
        scoreboard == RouterScoreboard(task)
        trace_data == [ winner |-> chosen, task |-> task, intent |-> task_spec.intent,
                        input_length |-> input_length, model_mapping |-> TASK_MODELS ]
        trace_step == TraceStep("choose_model", None, 0, trace_data)
    IN [ upd |-> [chosen_model |-> Some(chosen), scoreboard |-> scoreboard,
                  trace |-> Append(st.trace, trace_step)],
         calls |-> << >>, raised |-> None ]

choose_model(e, st) ==
    LET task == st.task
        task_spec == st.task_spec[1]
        input_length == len(st.input)
        chosen == ChooseBackend(e, task, input_length)
        scoreboard == RouterScoreboard(task)
        trace_data == [ winner |-> chosen, task |-> task, intent |-> task_spec.intent,
                        input_length |-> input_length, model_mapping |-> TASK_MODELS ]
        trace_step == TraceStep("choose_model", None, 0, trace_data)
    IN [ upd |-> [chosen_model |-> Some(chosen), scoreboard |-> scoreboard,
                  trace |-> Append(st.trace, trace_step)],
         calls |-> << >>, raised |-> None ]

--------------------------------------------------------------------------
(* Node: execute *)

GeminiIds == {"gemini-2.5-pro", "gemini-2.5-flash"}

\* Python: model.startswith("gemini:")
IsGeminiRoute(model) == \E g \in GeminiIds : model = "gemini:" \o g

\* Python: model.replace("gemini:", "")
GeminiModelOf(model) == CHOOSE g \in GeminiIds : model = "gemini:" \o g

\* Python: sub in name, for the names the scoreboard holds
NameContains(name, sub) ==
    <<name, sub>> \in { <<"Gemini 1.5 Pro", "Gemini">>, <<"Perplexity", "Perplexity">>,
                        <<"DeepSeek R1", "DeepSeek">>, <<"Claude Sonnet 4", "Claude">>,
                        <<"Mistral Small", "Mistral">> }

\* the loop of execute over state.scoreboard on its success path
ExecuteScoreboard(task, scoreboard, latency_ms) ==
    [ i \in 1..Len(scoreboard) |->
        IF \/ task = "summarize" /\ NameContains(scoreboard[i].model, "Gemini")
           \/ task = "research" /\ NameContains(scoreboard[i].model, "Perplexity")
           \/ task = "solve" /\ NameContains(scoreboard[i].model, "DeepSeek")
           \/ task = "code" /\ NameContains(scoreboard[i].model, "Claude")
           \/ task = "rewrite" /\ NameContains(scoreboard[i].model, "Mistral")
        THEN [scoreboard[i] EXCEPT !.latency_ms = latency_ms, !.quality = 9]
        ELSE scoreboard[i] ]

\* variant of SearchSources: the results are listed last first
SearchSources_LastFirst(results) ==
    [ i \in 1..Len(results) |->
        <<IndexTag[i], " ">> \o results[Len(results) + 1 - i].title \o <<" - ">>
        \o results[Len(results) + 1 - i].url ]

\* search_sources: "[i] title - url" for every result, numbered from 1
SearchSources(results) ==
    [ i \in 1..Len(results) |->
        <<IndexTag[i], " ">> \o results[i].title \o <<" - ">> \o results[i].url ]

\* variant of ExecuteModel: without search results the chosen model is kept
ExecuteModel_KeepsChosen(chosen, wants_search, perplexity_used) ==
    IF perplexity_used THEN TASK_MODELS["solve"]
    ELSE chosen

\* variant of ExecuteModel: after a search the call goes to the chosen model
ExecuteModel_NoSynthesisModel(chosen, wants_search, perplexity_used) ==
    IF perplexity_used THEN chosen
    ELSE IF wants_search THEN FALLBACK_MODEL
    ELSE chosen

\* execute, lines 256, 294, 298, 301: the model the backend call is made with:
\* the synthesis model after a search, FALLBACK_MODEL when the search was
\* wanted but failed or had no key, else the model the Router chose
ExecuteModel(chosen, wants_search, perplexity_used) ==
    IF perplexity_used THEN TASK_MODELS["solve"]
    ELSE IF wants_search THEN FALLBACK_MODEL
    ELSE chosen

\* the part of execute before the backend call: search, reroute, prompt.
\* searched: the search adapter was called; perplexity_used: it succeeded
ExecutePlan(e, st, sreply) ==
    LET task == st.task
        task_spec == st.task_spec[1]
        wants_search == task = "research" \/ st.chosen_model[1] = "perplexity"
        searched == wants_search /\ ~ Falsy(get_perplexity_key(e))
        search_data == search_with_perplexity(e, st.input, 5, sreply)
        perplexity_used == searched /\ search_data.ok
        model == ExecuteModel(st.chosen_model[1], wants_search, perplexity_used)
        base_prompt == IF task \in DOMAIN TASK_PROMPTS
                       THEN <<TASK_PROMPTS[task]>>
                       ELSE <<"You are a helpful assistant.">>
        search_prompt ==
            IF perplexity_used
            THEN <<"\n\nWeb Search Results:\n">>
                 \o format_search_results_for_llm(search_data)
                 \o <<"\n\nUse these sources to provide accurate, cited information. Reference sources using [1], [2], etc.">>
            ELSE << >>
        format_prompt ==
            IF task_spec.format = "diff"
            THEN <<"\n\nProvide output as a unified diff format starting with --- and +++.">>
            ELSE IF task_spec.format = "json"
            THEN <<"\n\nProvide output as valid JSON.">>
            ELSE << >>
        system_prompt == base_prompt \o search_prompt \o format_prompt
    IN [ model |-> model,
         searched |-> searched,
         search_ok |-> search_data.ok,
         perplexity_used |-> perplexity_used,
         search_sources |-> IF perplexity_used THEN SearchSources(search_data.results)
                            ELSE << >>,
         messages |-> << Message("system", system_prompt), Message("user", st.input) >> ]

\* the primary backend call of execute: Gemini or DigitalOcean, with its display name
ExecutePrimary(e, plan, reply) ==
    IF IsGeminiRoute(plan.model)
    THEN [ adapter |-> "gemini", model |-> GeminiModelOf(plan.model),
           result |-> call_gemini(e, GeminiModelOf(plan.model), plan.messages, reply),
           display_model |-> "Gemini " \o GeminiModelOf(plan.model) ]
    ELSE [ adapter |-> "do", model |-> plan.model,
           result |-> call_do_chat_completion(e, plan.model, plan.messages, reply),
           display_model |-> IF plan.model \in DOMAIN MODEL_NAMES
                             THEN MODEL_NAMES[plan.model] ELSE plan.model ]

\* variant of ExecuteSuccess: chosen_model is left as the Router set it
ExecuteSuccess_KeepsChosen(st, plan, primary, made) ==
    LET task == st.task
        result == primary.result
        display_model == IF plan.perplexity_used
                         THEN "Perplexity + " \o primary.display_model
                         ELSE primary.display_model
        trace_data ==
            IF plan.perplexity_used
            THEN [ task |-> task, perplexity_used |-> TRUE,
                   sources_found |-> Len(plan.search_sources),
                   sources |-> plan.search_sources ]
            ELSE [ task |-> task ]
        trace_step == TraceStep("execute", Some(display_model), result.latency_ms,
                                trace_data)
        final_result ==
            IF plan.perplexity_used /\ Len(plan.search_sources) > 0
            THEN result.content \o <<"\n", "\n", "---", "\n", "**Sources:**", "\n">>
                 \o join(plan.search_sources)
            ELSE result.content
    IN [ upd |-> [ result |-> Some(final_result),
                   scoreboard |-> ExecuteScoreboard(task, st.scoreboard,
                                                    result.latency_ms),
                   trace |-> Append(st.trace, trace_step) ],
         calls |-> made, raised |-> None ]

\* execute, lines 365-413: the primary call returned
ExecuteSuccess(st, plan, primary, made) ==
    LET task == st.task
        result == primary.result
        display_model == IF plan.perplexity_used
                         THEN "Perplexity + " \o primary.display_model
                         ELSE primary.display_model
        trace_data ==
            IF plan.perplexity_used
            THEN [ task |-> task, perplexity_used |-> TRUE,
                   sources_found |-> Len(plan.search_sources),
                   sources |-> plan.search_sources ]
            ELSE [ task |-> task ]
        trace_step == TraceStep("execute", Some(display_model), result.latency_ms,
                                trace_data)
        final_result ==
            IF plan.perplexity_used /\ Len(plan.search_sources) > 0
            THEN result.content \o <<"\n", "\n", "---", "\n", "**Sources:**", "\n">>
                 \o join(plan.search_sources)
            ELSE result.content
    IN [ upd |-> [ result |-> Some(final_result),
                   chosen_model |-> Some(display_model),
                   scoreboard |-> ExecuteScoreboard(task, st.scoreboard,
                                                    result.latency_ms),
                   trace |-> Append(st.trace, trace_step) ],
         calls |-> made, raised |-> None ]

\* variant of ExecuteExcept: a failure of the substitute call is not caught
ExecuteExcept_Reraises(e, st, plan, primary, sub_reply, made) ==
    LET sub == call_do_chat_completion(e, FALLBACK_MODEL, plan.messages, sub_reply)
        sub_calls == << Call("execute", "do", FALLBACK_MODEL, plan.messages, sub) >>
    IN
    IF sub.ok
    THEN
        LET trace_step ==
                TraceStep("execute", Some(plan.model \o " -> Llama 3.3 (fallback)"),
                          sub.latency_ms,
                          [original_error |-> primary.result.error,
                           used_fallback |-> TRUE])
        IN [ upd |-> [ result |-> Some(sub.content),
                       chosen_model |-> Some("Llama 3.3 70B (fallback)"),
                       trace |-> Append(st.trace, trace_step) ],
             calls |-> made \o sub_calls, raised |-> None ]
    ELSE [ upd |-> EmptyDict, calls |-> made \o sub_calls, raised |-> Some(sub.raised) ]

\* variant of ExecuteExcept: a failed substitute call is made a second time
ExecuteExcept_TwoSubstitutes(e, st, plan, primary, sub_reply, made) ==
    LET sub == call_do_chat_completion(e, FALLBACK_MODEL, plan.messages, sub_reply)
        sub_calls == << Call("execute", "do", FALLBACK_MODEL, plan.messages, sub) >>
    IN
    IF sub.ok
    THEN
        LET trace_step ==
                TraceStep("execute", Some(plan.model \o " -> Llama 3.3 (fallback)"),
                          sub.latency_ms,
                          [original_error |-> primary.result.error,
                           used_fallback |-> TRUE])
        IN [ upd |-> [ result |-> Some(sub.content),
                       chosen_model |-> Some("Llama 3.3 70B (fallback)"),
                       trace |-> Append(st.trace, trace_step) ],
             calls |-> made \o sub_calls, raised |-> None ]
    ELSE
        LET trace_step ==
                TraceStep("execute", Some(plan.model), 0,
                          [error |-> primary.result.error, fallback_error |-> sub.error])
        IN [ upd |-> [ result |-> None,
                       trace |-> Append(st.trace, trace_step) ],
             calls |-> made \o sub_calls \o sub_calls, raised |-> None ]

\* execute, lines 415-455: the primary call raised ModelAPIError or GeminiError;
\* one substitute call to FALLBACK_MODEL with the same messages.
\* The arrow in the trace record is U+2192 in the source, "->" here.
ExecuteExcept(e, st, plan, primary, sub_reply, made) ==
    LET sub == call_do_chat_completion(e, FALLBACK_MODEL, plan.messages, sub_reply)
        sub_calls == << Call("execute", "do", FALLBACK_MODEL, plan.messages, sub) >>
    IN
    IF sub.ok
    THEN
        LET trace_step ==
                TraceStep("execute", Some(plan.model \o " -> Llama 3.3 (fallback)"),
                          sub.latency_ms,
                          [original_error |-> primary.result.error,
                           used_fallback |-> TRUE])
        IN [ upd |-> [ result |-> Some(sub.content),
                       chosen_model |-> Some("Llama 3.3 70B (fallback)"),
                       trace |-> Append(st.trace, trace_step) ],
             calls |-> made \o sub_calls, raised |-> None ]
    ELSE
        LET trace_step ==
                TraceStep("execute", Some(plan.model), 0,
                          [error |-> primary.result.error, fallback_error |-> sub.error])
        IN [ upd |-> [ result |-> None,
                       trace |-> Append(st.trace, trace_step) ],
             calls |-> made \o sub_calls, raised |-> None ]

execute(e, st, sreply, reply, sub_reply) ==
    LET plan == ExecutePlan(e, st, sreply)
        primary == ExecutePrimary(e, plan, reply)
        search_calls ==
            IF plan.searched
            THEN << Call("execute", "perplexity", "search", st.input,
                         search_with_perplexity(e, st.input, 5, sreply)) >>
            ELSE << >>
        primary_calls ==
            << Call("execute", primary.adapter, primary.model, plan.messages,
                    primary.result) >>
    IN
    IF primary.result.ok
    THEN ExecuteSuccess(st, plan, primary, search_calls \o primary_calls)
    ELSE ExecuteExcept(e, st, plan, primary, sub_reply, search_calls \o primary_calls)

--------------------------------------------------------------------------
(* Node: verify *)

\* Python: not result, for an Optional[str]
NotResult(result) == result = None \/ result[1] = <<>>

\* variant of VerifyNoResult: a missing result is accepted
VerifyNoResult_Passes(st) ==
    [ upd |-> [verification_passed |-> TRUE], calls |-> << >>, raised |-> None ]

\* verify, lines 465-467: nothing to verify, no trace record is written
VerifyNoResult(st) ==
    [ upd |-> [verification_passed |-> FALSE], calls |-> << >>, raised |-> None ]

\* variant of VerifyPassed: a result that only begins with diff is rejected
VerifyPassed_NoDiffPrefix(result, format) ==
    IF format = "json" THEN json_loads_ok(result)
    ELSE IF format = "diff"
    THEN Contains(result, "+++") /\ Contains(result, "---")
    ELSE Len(strip(result)) > 0

\* verify, lines 469-495: the value of passed after the format checks
VerifyPassed(result, format) ==
    IF format = "json" THEN json_loads_ok(result)
    ELSE IF format = "diff"
    THEN (Contains(result, "+++") /\ Contains(result, "---"))
         \/ StartsWith(result, "diff")
    ELSE Len(strip(result)) > 0

verify(st) ==
    IF NotResult(st.result)
    THEN VerifyNoResult(st)
    ELSE
        LET result == st.result[1]
            format == st.task_spec[1].format
            passed == VerifyPassed(result, format)
            verification_notes ==
                IF format = "json"
                THEN IF json_loads_ok(result) THEN <<"Valid JSON">> ELSE <<"Invalid JSON">>
                ELSE IF format = "diff"
                THEN IF ~ (Contains(result, "+++") /\ Contains(result, "---"))
                     THEN IF ~ StartsWith(result, "diff")
                          THEN <<"Not a valid diff format">>
                          ELSE <<"Diff format detected">>
                     ELSE <<"Diff format valid">>
                ELSE IF Len(strip(result)) > 0
                     THEN <<"Non-empty response">> ELSE <<"Empty response">>
            trace_step == TraceStep("verify", None, 0,
                                    [passed |-> passed, notes |-> verification_notes])
        IN [ upd |-> [ verification_passed |-> passed,
                       trace |-> Append(st.trace, trace_step) ],
             calls |-> << >>, raised |-> None ]

--------------------------------------------------------------------------
(* Node: fallback *)

\* variant of FallbackScoreboard: an entry for the fallback model is added
FallbackScoreboard_AddsEntry(scoreboard, latency_ms) ==
    Append(scoreboard,
           [ ScoreboardEntry(FALLBACK_MODEL, "low", "Used as fallback")
               EXCEPT !.latency_ms = latency_ms, !.quality = 8 ])

\* the loop of fallback over state.scoreboard when its call succeeded
FallbackScoreboard(scoreboard, latency_ms) ==
    [ i \in 1..Len(scoreboard) |->
        IF scoreboard[i].model = FALLBACK_MODEL
        THEN [scoreboard[i] EXCEPT !.latency_ms = latency_ms, !.quality = 8,
                                   !.notes = "Used as fallback"]
        ELSE scoreboard[i] ]

\* variant of FallbackSuccess: the trace is started afresh
FallbackSuccess_FreshTrace(st, result, made) ==
    [ upd |-> [ result |-> Some(result.content),
                chosen_model |-> Some(FALLBACK_MODEL),
                fallback_attempted |-> TRUE,
                verification_passed |-> TRUE,
                scoreboard |-> FallbackScoreboard(st.scoreboard, result.latency_ms),
                trace |-> << TraceStep("fallback", Some(FALLBACK_MODEL),
                                       result.latency_ms, EmptyDict) >> ],
      calls |-> made, raised |-> None ]

\* variant of FallbackSuccess: the classification is reset to the default
FallbackSuccess_ResetsClassification(st, result, made) ==
    [ upd |-> [ result |-> Some(result.content),
                chosen_model |-> Some(FALLBACK_MODEL),
                task_spec |-> Some(TaskSpec("general", "text", FALSE, 5)),
                fallback_attempted |-> TRUE,
                verification_passed |-> TRUE,
                scoreboard |-> FallbackScoreboard(st.scoreboard, result.latency_ms),
                trace |-> Append(st.trace,
                             TraceStep("fallback", Some(FALLBACK_MODEL),
                                       result.latency_ms, EmptyDict)) ],
      calls |-> made, raised |-> None ]

\* variant of FallbackSuccess: chosen_model is left as the Executor set it
FallbackSuccess_KeepsBackend(st, result, made) ==
    [ upd |-> [ result |-> Some(result.content),
                fallback_attempted |-> TRUE,
                verification_passed |-> TRUE,
                scoreboard |-> FallbackScoreboard(st.scoreboard, result.latency_ms),
                trace |-> Append(st.trace,
                             TraceStep("fallback", Some(FALLBACK_MODEL),
                                       result.latency_ms, EmptyDict)) ],
      calls |-> made, raised |-> None ]

\* fallback, lines 541-563: the call returned
FallbackSuccess(st, result, made) ==
    [ upd |-> [ result |-> Some(result.content),
                chosen_model |-> Some(FALLBACK_MODEL),
                fallback_attempted |-> TRUE,
                verification_passed |-> TRUE,
                scoreboard |-> FallbackScoreboard(st.scoreboard, result.latency_ms),
                trace |-> Append(st.trace,
                             TraceStep("fallback", Some(FALLBACK_MODEL),
                                       result.latency_ms, EmptyDict)) ],
      calls |-> made, raised |-> None ]

\* variant of FallbackExcept: the failed attempt is not flagged
FallbackExcept_NoFlag(st, result, made) ==
    [ upd |-> [ verification_passed |-> TRUE,
                trace |-> Append(st.trace,
                             TraceStep("fallback", Some(FALLBACK_MODEL), 0,
                                       [error |-> result.error])) ],
      calls |-> made, raised |-> None ]

\* variant of FallbackExcept: the retained result is not accepted
FallbackExcept_NotVerified(st, result, made) ==
    [ upd |-> [ fallback_attempted |-> TRUE,
                trace |-> Append(st.trace,
                             TraceStep("fallback", Some(FALLBACK_MODEL), 0,
                                       [error |-> result.error])) ],
      calls |-> made, raised |-> None ]

\* variant of FallbackExcept: the earlier result is dropped
FallbackExcept_ClearsResult(st, result, made) ==
    [ upd |-> [ result |-> None,
                fallback_attempted |-> TRUE,
                verification_passed |-> TRUE,
                trace |-> Append(st.trace,
                             TraceStep("fallback", Some(FALLBACK_MODEL), 0,
                                       [error |-> result.error])) ],
      calls |-> made, raised |-> None ]

\* variant of FallbackExcept: the ModelAPIError is not caught
FallbackExcept_Raises(st, result, made) ==
    [ upd |-> EmptyDict, calls |-> made, raised |-> Some("ModelAPIError") ]

\* fallback, lines 565-580: the call raised ModelAPIError
FallbackExcept(st, result, made) ==
    [ upd |-> [ fallback_attempted |-> TRUE,
                verification_passed |-> TRUE,
                trace |-> Append(st.trace,
                             TraceStep("fallback", Some(FALLBACK_MODEL), 0,
                                       [error |-> result.error])) ],
      calls |-> made, raised |-> None ]

fallback(e, st, reply) ==
    LET task_spec == st.task_spec[1]
        system_prompt ==
            <<"You are a helpful assistant. Provide accurate responses.">>
            \o (IF task_spec.format = "json"
                THEN <<"\n\nProvide output as valid JSON.">>
                ELSE IF task_spec.format = "diff"
                THEN <<"\n\nProvide output as a unified diff format.">>
                ELSE << >>)
        user_prompt == <<"Task: ", st.task, "\n\n">> \o st.input
        messages == << Message("system", system_prompt), Message("user", user_prompt) >>
        result == call_do_chat_completion(e, FALLBACK_MODEL, messages, reply)
        made == << Call("fallback", "do", FALLBACK_MODEL, messages, result) >>
    IN
    IF result.ok
    THEN FallbackSuccess(st, result, made)
    ELSE FallbackExcept(st, result, made)

--------------------------------------------------------------------------
(* Conditional edge and graph *)

\* variant of should_fallback: the verdict is ignored
should_fallback_IgnoresVerdict(st) ==
    IF ~ st.fallback_attempted THEN "fallback" ELSE "END"

should_fallback(st) ==
    IF ~ st.verification_passed /\ ~ st.fallback_attempted THEN "fallback" ELSE "END"

\* variant of NextNode: Fallback hands its result back to the Verifier
NextNode_FallbackReverifies(node, st) ==
    CASE node = "classify_task" -> "choose_model"
      [] node = "choose_model"  -> "execute"
      [] node = "execute"       -> "verify"
      [] node = "verify"        -> should_fallback(st)
      [] node = "fallback"      -> "verify"

\* variant of NextNode: the conditional edge leaves the Executor
NextNode_SkipsVerifier(node, st) ==
    CASE node = "classify_task" -> "choose_model"
      [] node = "choose_model"  -> "execute"
      [] node = "execute"       -> should_fallback(st)
      [] node = "verify"        -> "END"
      [] node = "fallback"      -> "END"

\* build_jury_graph: the node that follows each node
NextNode(node, st) ==
    CASE node = "classify_task" -> "choose_model"
      [] node = "choose_model"  -> "execute"
      [] node = "execute"       -> "verify"
      [] node = "verify"        -> should_fallback(st)
      [] node = "fallback"      -> "END"

--------------------------------------------------------------------------
(* main.py run_jury *)

Placeholder == <<"No result generated">>

\* variant of RunJuryResponse: only None is replaced by the placeholder
RunJuryResponse_NoneOnly(st) ==
    [ kind |-> "response",
      final |-> IF st.result = None THEN Placeholder ELSE st.result[1],
      winner_model |-> IF st.chosen_model = None \/ st.chosen_model = Some("")
                       THEN "none" ELSE st.chosen_model[1],
      task_spec |-> st.task_spec,
      scoreboard |-> st.scoreboard,
      trace |-> st.trace ]

\* the RunJuryResponse run_jury builds from the final state
RunJuryResponse(st) ==
    [ kind |-> "response",
      final |-> IF NotResult(st.result) THEN Placeholder ELSE st.result[1],
      winner_model |-> IF st.chosen_model = None \/ st.chosen_model = Some("")
                       THEN "none" ELSE st.chosen_model[1],
      task_spec |-> st.task_spec,
      scoreboard |-> st.scoreboard,
      trace |-> st.trace ]

\* the HTTPException run_jury raises: 500 for a missing key before the
\* workflow, 502 for a ModelAPIError out of the workflow, 500 for anything else
HTTPException(status_code, detail) ==
    [kind |-> "error", status_code |-> status_code, detail |-> detail]

RunJuryExcept(raised) ==
    IF raised = "ModelAPIError" THEN HTTPException(502, "Model API error")
    ELSE HTTPException(500, "Internal error")

--------------------------------------------------------------------------
(* The requests and environments explored *)

\* task is a plain str in GraphState and run_jury_workflow: the five tasks of
\* the request schema and one value outside them
Tasks == {"summarize", "research", "solve", "code", "rewrite", "translate"}

Inputs == { <<t>> : t \in DOMAIN InputChars }

\* mode is stored in the state and read by no node
Modes == {"best"}

Envs ==
    [ MODEL_ACCESS_KEY   : {None, Some("do-key")},
      GEMINI_API_KEY     : {None, Some(""), Some("gm-key")},
      PERPLEXITY_API_KEY : {None, Some("px-key")} ]

\* replies to the classifier call: JSON objects, {} and prose
ClassifierReplies ==
    { r \in Replies : r.kind # "ok" }
    \cup { [kind |-> "ok", content |-> c, latency_ms |-> l] :
              c \in { <<t>> : t \in DOMAIN JsonDocs } \cup { <<"x">>, <<"{", "}">>, <<>> },
              l \in Latencies }

Init ==
    /\ pc = "request"
    /\ \E task \in Tasks, input \in Inputs, mode \in Modes :
           state = GraphState(task, input, mode)
    /\ env \in Envs
    /\ stages = << >>
    /\ calls = << >>
    /\ response = None
    /\ runs = << >>

\* one node of the graph ran: merge its update and follow the edge, or let
\* its exception reach run_jury's except clauses
RunNode(node, out) ==
    /\ stages' = Append(stages, node)
    /\ calls' = calls \o out.calls
    /\ UNCHANGED <<env, runs>>
    /\ IF out.raised = None
       THEN /\ state' = Merge(state, out.upd)
            /\ pc' = NextNode(node, Merge(state, out.upd))
            /\ UNCHANGED response
       ELSE /\ pc' = "raised"
            /\ response' = Some(RunJuryExcept(out.raised[1]))
            /\ UNCHANGED state

\* variant of RunJury: the workflow is entered without the configuration check
RunJury_NoCheck ==
    /\ pc = "request"
    /\ pc' = "classify_task"
    /\ UNCHANGED <<state, env, stages, calls, response, runs>>

\* run_jury up to graph.invoke: the configuration check, then the entry point
RunJury ==
    /\ pc = "request"
    /\ IF get_model_access_key(env).ok
       THEN /\ pc' = "classify_task"
            /\ UNCHANGED response
       ELSE /\ pc' = "raised"
            /\ response' = Some(HTTPException(500, "Configuration error"))
    /\ UNCHANGED <<state, env, stages, calls, runs>>

ClassifyTask ==
    /\ pc = "classify_task"
    /\ \E reply \in ClassifierReplies :
           RunNode("classify_task", classify_task(env, state, reply))

ChooseModel ==
    /\ pc = "choose_model"
    /\ RunNode("choose_model", choose_model(env, state))

Execute ==
    /\ pc = "execute"
    /\ \E sreply \in SearchReplies, reply \in Replies, sub_reply \in Replies :
           RunNode("execute", execute(env, state, sreply, reply, sub_reply))

Verify ==
    /\ pc = "verify"
    /\ RunNode("verify", verify(state))

Fallback ==
    /\ pc = "fallback"
    /\ \E reply \in Replies :
           RunNode("fallback", fallback(env, state, reply))

\* run_jury after graph.invoke returned: build and return the response
Respond ==
    /\ pc = "END"
    /\ pc' = "returned"
    /\ response' = Some(RunJuryResponse(state))
    /\ UNCHANGED <<state, env, stages, calls, runs>>

Next ==
    \/ RunJury
    \/ ClassifyTask
    \/ ChooseModel
    \/ Execute
    \/ Verify
    \/ Fallback
    \/ Respond

Spec == Init /\ [][Next]_vars

TypeOK ==
    /\ pc \in {"request", "classify_task", "choose_model", "execute", "verify",
               "fallback", "END", "returned", "raised"}
    /\ state.verification_passed \in BOOLEAN
    /\ state.fallback_attempted \in BOOLEAN

--------------------------------------------------------------------------
(* Two requests served side by side *)

\* the tasks of the two requests of a pair: the same task twice, or two
\* different tasks; both requests have the same input and mode
PairTasks ==
    { <<"research", "research">>, <<"research", "code">> }

\* the environment of the pair: every key set
PairEnvs ==
    { [ MODEL_ACCESS_KEY |-> Some("do-key"), GEMINI_API_KEY |-> Some("gm-key"),
        PERPLEXITY_API_KEY |-> Some("px-key") ] }

\* what a chat provider may answer to a request of the pair: a timeout,
\* prose, or only whitespace
PairReplies ==
    { [kind |-> "timeout"],
      [kind |-> "ok", content |-> <<"x">>, latency_ms |-> 120],
      [kind |-> "ok", content |-> <<" ">>, latency_ms |-> 120] }

\* what the search provider may answer to a request of the pair
PairSearchReplies == { [kind |-> "error"], [kind |-> "ok", hits |-> <<1>>] }

\* the answers the providers hold ready for one step of a run: for the
\* search call, the first chat call and the substitute chat call of the step
PairOutcomes ==
    [ sreply : PairSearchReplies, reply : PairReplies, sub_reply : PairReplies ]

\* run_jury called with a request: nothing has run yet.  script is the
\* history of the provider answers the run has consumed, step by step.
Run(task, input, mode) ==
    [ pc |-> "request", state |-> GraphState(task, input, mode),
      stages |-> << >>, calls |-> << >>, response |-> None, script |-> << >>,
      overlapped |-> FALSE ]

\* variant of RunView: the trace is a list shared by the runs of the process
RunView_SharedTrace(own, foreign) == [own EXCEPT !.trace = foreign.trace]

\* variant of RunView: the scoreboard is a list shared by the runs of the process
RunView_SharedScoreboard(own, foreign) ==
    [own EXCEPT !.scoreboard = foreign.scoreboard]

\* the state a node of a run is handed: run_jury_workflow builds a fresh
\* GraphState with its own trace and scoreboard lists and graph.invoke
\* threads it through the nodes, so a node sees nothing of another run
RunView(own, foreign) == own

\* the node function the graph calls at a position, with the answers o
NodeOut(node, e, st, o) ==
    CASE node = "classify_task" -> classify_task(e, st, o.reply)
      [] node = "choose_model"  -> choose_model(e, st)
      [] node = "execute"       -> execute(e, st, o.sreply, o.reply, o.sub_reply)
      [] node = "verify"        -> verify(st)
      [] node = "fallback"      -> fallback(e, st, o.reply)

\* the answers of o that the calls made in a step consumed; an answer that
\* no call asked for is replaced by a fixed one
Consumed(o, made) ==
    LET chats == Len(SelectSeq(made, LAMBDA c : c.adapter \in {"do", "gemini"}))
        searches == Len(SelectSeq(made, LAMBDA c : c.adapter = "perplexity"))
    IN [ sreply    |-> IF searches >= 1 THEN o.sreply ELSE [kind |-> "error"],
         reply     |-> IF chats >= 1 THEN o.reply ELSE [kind |-> "timeout"],
         sub_reply |-> IF chats >= 2 THEN o.sub_reply ELSE [kind |-> "timeout"] ]

\* one step of the run r of a pair, in environment e, with the answers o
\* ready and the other run's state being foreign: the configuration check of
\* run_jury, one node of the graph, or the building of the response
StepRun(r, foreign, e, o) ==
    IF r.pc = "request"
    THEN [ r EXCEPT !.pc = IF get_model_access_key(e).ok
                           THEN "classify_task" ELSE "raised",
                    !.response = IF get_model_access_key(e).ok THEN None
                                 ELSE Some(HTTPException(500, "Configuration error")),
                    !.script = Append(@, Consumed(o, << >>)) ]
    ELSE IF r.pc = "END"
    THEN [ r EXCEPT !.pc = "returned",
                    !.response = Some(RunJuryResponse(r.state)),
                    !.script = Append(@, Consumed(o, << >>)) ]
    ELSE
        LET out == NodeOut(r.pc, e, RunView(r.state, foreign), o)
            merged == Merge(r.state, out.upd)
        IN IF out.raised = None
           THEN [ r EXCEPT !.pc = NextNode(r.pc, merged),
                           !.state = merged,
                           !.stages = Append(@, r.pc),
                           !.calls = @ \o out.calls,
                           !.script = Append(@, Consumed(o, out.calls)) ]
           ELSE [ r EXCEPT !.pc = "raised",
                           !.stages = Append(@, r.pc),
                           !.calls = @ \o out.calls,
                           !.response = Some(RunJuryExcept(out.raised[1])),
                           !.script = Append(@, Consumed(o, out.calls)) ]

PairInit ==
    /\ pc = "request"
    /\ state = GraphState("summarize", <<"<input:12>">>, "best")
    /\ env \in PairEnvs
    /\ stages = << >>
    /\ calls = << >>
    /\ response = None
    /\ \E t \in PairTasks :
           runs = << Run(t[1], <<"<input:12>">>, "best"),
                     Run(t[2], <<"<input:12>">>, "best") >>

\* the run is between its first and its last step
Midway(r) == r.pc \notin {"request", "returned", "raised"}

\* run i of the pair takes its next step while the other run stands still;
\* the answers held ready are those its calls ask for.  overlapped records
\* that the run took a step while the other run was between two of its own.
PairStep(i) ==
    /\ runs[i].pc \notin {"returned", "raised"}
    /\ \E o \in PairOutcomes :
           LET next_run == StepRun(runs[i], runs[3 - i].state, env, o) IN
           /\ next_run.script[Len(next_run.script)] = o
           /\ runs' = [runs EXCEPT ![i] =
                          [next_run EXCEPT !.overlapped = @ \/ Midway(runs[3 - i])]]
    /\ UNCHANGED <<pc, state, env, stages, calls, response>>

PairNext == PairStep(1) \/ PairStep(2)

PairSpec == PairInit /\ [][PairNext]_vars

--------------------------------------------------------------------------
(* The jury variant of the pipeline: jury/langgraph_flow.py.  Its
   classify_task, its prompt, its graph and its run_jury_workflow are the
   same text as the agent variant's; choose_model and execute differ. *)

CODING_MODEL == "llama3.3-70b-instruct"

REASONING_MODEL == "deepseek-r1-distill-llama-70b"

\* jury choose_model, lines 120-166
jury_choose_model(st) ==
    LET task_spec == st.task_spec[1]
        chosen == IF task_spec.intent = "code" THEN CODING_MODEL
                  ELSE IF task_spec.intent = "reasoning" THEN REASONING_MODEL
                  ELSE FALLBACK_MODEL
        scoreboard ==
            << ScoreboardEntry(CODING_MODEL, "high",
                   IF chosen = CODING_MODEL THEN "Best for coding tasks" ELSE ""),
               ScoreboardEntry(REASONING_MODEL, "med",
                   IF chosen = REASONING_MODEL THEN "Best for reasoning tasks" ELSE ""),
               ScoreboardEntry(FALLBACK_MODEL, "high",
                   IF chosen = FALLBACK_MODEL THEN "General purpose fallback" ELSE "") >>
        trace_step == TraceStep("choose_model", None, 0,
                                [winner |-> chosen, intent |-> task_spec.intent])
    IN [ upd |-> [chosen_model |-> Some(chosen), scoreboard |-> scoreboard,
                  trace |-> Append(st.trace, trace_step)],
         calls |-> << >>, raised |-> None ]

\* the prompt jury execute composes, lines 173-199
jury_messages(st) ==
    LET task_spec == st.task_spec[1]
        base_prompt ==
            IF task_spec.intent = "code"
            THEN <<"You are an expert coding assistant. Provide clear, correct code.">>
            ELSE IF task_spec.intent = "reasoning"
            THEN <<"You are a reasoning expert. Think step-by-step and provide detailed analysis.">>
            ELSE <<"You are a helpful assistant.">>
        format_instructions ==
            IF task_spec.format = "diff"
            THEN <<"\n\nProvide output as a unified diff format starting with --- and +++.">>
            ELSE IF task_spec.format = "json"
            THEN <<"\n\nProvide output as valid JSON.">>
            ELSE << >>
        citations ==
            IF task_spec.needs_citations
            THEN <<"\n\nInclude citations and references where applicable.">>
            ELSE << >>
    IN << Message("system", base_prompt \o format_instructions \o citations),
          Message("user", <<"Task: ", st.task, "\n\n">> \o st.input) >>

\* variant of jury_execute: a failed call is followed by a call to FALLBACK_MODEL
jury_execute_Substitutes(e, st, reply, sub_reply) ==
    LET model == st.chosen_model[1]
        messages == jury_messages(st)
        result == call_do_chat_completion(e, model, messages, reply)
        made == << Call("execute", "do", model, messages, result) >>
        sub == call_do_chat_completion(e, FALLBACK_MODEL, messages, sub_reply)
        sub_calls == << Call("execute", "do", FALLBACK_MODEL, messages, sub) >>
    IN
    IF result.ok
    THEN [ upd |-> [ result |-> Some(result.content),
                     scoreboard |->
                         [ i \in 1..Len(st.scoreboard) |->
                             IF st.scoreboard[i].model = model
                             THEN [st.scoreboard[i] EXCEPT
                                      !.latency_ms = result.latency_ms, !.quality = 9]
                             ELSE st.scoreboard[i] ],
                     trace |-> Append(st.trace,
                                  TraceStep("execute", Some(model), result.latency_ms,
                                            EmptyDict)) ],
           calls |-> made, raised |-> None ]
    ELSE [ upd |-> [ result |-> IF sub.ok THEN Some(sub.content) ELSE None,
                     trace |-> Append(st.trace,
                                  TraceStep("execute", Some(model), 0,
                                            [error |-> result.error])) ],
           calls |-> made \o sub_calls, raised |-> None ]

\* jury execute, lines 169-245: one call to the chosen model; sub_reply is
\* not used, no second call is made
jury_execute(e, st, reply, sub_reply) ==
    LET model == st.chosen_model[1]
        messages == jury_messages(st)
        result == call_do_chat_completion(e, model, messages, reply)
        made == << Call("execute", "do", model, messages, result) >>
    IN
    IF result.ok
    THEN [ upd |-> [ result |-> Some(result.content),
                     scoreboard |->
                         [ i \in 1..Len(st.scoreboard) |->
                             IF st.scoreboard[i].model = model
                             THEN [st.scoreboard[i] EXCEPT
                                      !.latency_ms = result.latency_ms, !.quality = 9]
                             ELSE st.scoreboard[i] ],
                     trace |-> Append(st.trace,
                                  TraceStep("execute", Some(model), result.latency_ms,
                                            EmptyDict)) ],
           calls |-> made, raised |-> None ]
    ELSE [ upd |-> [ result |-> None,
                     trace |-> Append(st.trace,
                                  TraceStep("execute", Some(model), 0,
                                            [error |-> result.error])) ],
           calls |-> made, raised |-> None ]

\* jury verify, lines 248-298
jury_verify(st) ==
    IF st.result = None \/ st.result[1] = << >>
    THEN [ upd |-> [verification_passed |-> FALSE], calls |-> << >>, raised |-> None ]
    ELSE
        LET result == st.result[1]
            format == st.task_spec[1].format
            passed ==
                IF format = "json" THEN json_loads_ok(result)
                ELSE IF format = "diff"
                THEN ~ ( /\ ~ (Contains(result, "+++") /\ Contains(result, "---"))
                         /\ ~ StartsWith(result, "diff") )
                ELSE Len(strip(result)) > 0
            verification_notes ==
                IF format = "json"
                THEN IF json_loads_ok(result) THEN <<"Valid JSON">> ELSE <<"Invalid JSON">>
                ELSE IF format = "diff"
                THEN IF ~ (Contains(result, "+++") /\ Contains(result, "---"))
                     THEN IF ~ StartsWith(result, "diff")
                          THEN <<"Not a valid diff format">>
                          ELSE <<"Diff format detected">>
                     ELSE <<"Diff format valid">>
                ELSE IF Len(strip(result)) > 0
                     THEN <<"Non-empty response">> ELSE <<"Empty response">>
        IN [ upd |-> [ verification_passed |-> passed,
                       trace |-> Append(st.trace,
                                    TraceStep("verify", None, 0,
                                              [passed |-> passed,
                                               notes |-> verification_notes])) ],
             calls |-> << >>, raised |-> None ]

\* jury fallback, lines 301-370
jury_fallback(e, st, reply) ==
    LET task_spec == st.task_spec[1]
        system_prompt ==
            <<"You are a helpful assistant. Provide accurate responses.">>
            \o (IF task_spec.format = "json"
                THEN <<"\n\nProvide output as valid JSON.">>
                ELSE IF task_spec.format = "diff"
                THEN <<"\n\nProvide output as a unified diff format.">>
                ELSE << >>)
        messages == << Message("system", system_prompt),
                       Message("user", <<"Task: ", st.task, "\n\n">> \o st.input) >>
        result == call_do_chat_completion(e, FALLBACK_MODEL, messages, reply)
        made == << Call("fallback", "do", FALLBACK_MODEL, messages, result) >>
    IN
    IF result.ok
    THEN [ upd |-> [ result |-> Some(result.content),
                     chosen_model |-> Some(FALLBACK_MODEL),
                     fallback_attempted |-> TRUE,
                     verification_passed |-> TRUE,
                     scoreboard |->
                         [ i \in 1..Len(st.scoreboard) |->
                             IF st.scoreboard[i].model = FALLBACK_MODEL
                             THEN [st.scoreboard[i] EXCEPT
                                      !.latency_ms = result.latency_ms, !.quality = 8,
                                      !.notes = "Used as fallback"]
                             ELSE st.scoreboard[i] ],
                     trace |-> Append(st.trace,
                                  TraceStep("fallback", Some(FALLBACK_MODEL),
                                            result.latency_ms, EmptyDict)) ],
           calls |-> made, raised |-> None ]
    ELSE [ upd |-> [ fallback_attempted |-> TRUE,
                     verification_passed |-> TRUE,
                     trace |-> Append(st.trace,
                                  TraceStep("fallback", Some(FALLBACK_MODEL), 0,
                                            [error |-> result.error])) ],
           calls |-> made, raised |-> None ]

\* jury should_fallback, lines 373-382
jury_should_fallback(st) ==
    IF ~ st.verification_passed /\ ~ st.fallback_attempted THEN "fallback" ELSE "END"

\* jury build_jury_graph: the node that follows each node
JuryNextNode(node, st) ==
    CASE node = "classify_task" -> "choose_model"
      [] node = "choose_model"  -> "execute"
      [] node = "execute"       -> "verify"
      [] node = "verify"        -> jury_should_fallback(st)
      [] node = "fallback"      -> "END"

\* one node of the jury graph ran: no node lets an exception out
JuryRunNode(node, out) ==
    /\ stages' = Append(stages, node)
    /\ calls' = calls \o out.calls
    /\ state' = Merge(state, out.upd)
    /\ pc' = JuryNextNode(node, Merge(state, out.upd))
    /\ UNCHANGED <<env, response, runs>>

\* jury run_jury_workflow: the initial state handed to graph.invoke
JuryInit ==
    /\ pc = "classify_task"
    /\ \E task \in Tasks, input \in Inputs, mode \in Modes :
           state = GraphState(task, input, mode)
    /\ env \in Envs
    /\ stages = << >>
    /\ calls = << >>
    /\ response = None
    /\ runs = << >>

JuryClassifyTask ==
    /\ pc = "classify_task"
    /\ \E reply \in ClassifierReplies :
           JuryRunNode("classify_task", classify_task(env, state, reply))

JuryChooseModel ==
    /\ pc = "choose_model"
    /\ JuryRunNode("choose_model", jury_choose_model(state))

JuryExecute ==
    /\ pc = "execute"
    /\ \E reply \in Replies, sub_reply \in Replies :
           JuryRunNode("execute", jury_execute(env, state, reply, sub_reply))

JuryVerify ==
    /\ pc = "verify"
    /\ JuryRunNode("verify", jury_verify(state))

JuryFallback ==
    /\ pc = "fallback"
    /\ \E reply \in Replies :
           JuryRunNode("fallback", jury_fallback(env, state, reply))

JuryNext ==
    \/ JuryClassifyTask
    \/ JuryChooseModel
    \/ JuryExecute
    \/ JuryVerify
    \/ JuryFallback

JurySpec == JuryInit /\ [][JuryNext]_vars

--------------------------------------------------------------------------
(* Vocabulary of the properties *)

\* graph.invoke has returned (the run reached END), whether or not run_jury
\* has built its response yet
Ended == pc \in {"END", "returned"}

\* the request is over: a response was returned or an exception raised
Finished == pc \in {"returned", "raised"}

\* the positions of the trace records of a stage
StepIndexes(trace, step) == { i \in 1..Len(trace) : trace[i].step = step }

HasStep(trace, step) == StepIndexes(trace, step) # {}

\* the Verifier passed: it wrote a record with passed = True
VerifierPassed(trace) ==
    \E i \in StepIndexes(trace, "verify") : trace[i].data.passed

\* the last trace record is the one a failed Fallback call writes
FallbackFailed(trace) ==
    /\ Len(trace) > 0
    /\ trace[Len(trace)].step = "fallback"
    /\ "error" \in DOMAIN trace[Len(trace)].data

\* the generation calls (chat adapters) a stage made, in order
GenerationCalls(stage) ==
    SelectSeq(calls, LAMBDA c : c.stage = stage /\ c.adapter \in {"do", "gemini"})

StageOrder == <<"classify_task", "choose_model", "execute", "verify", "fallback">>

IsPrefix(s, t) == Len(s) <= Len(t) /\ \A i \in 1..Len(s) : s[i] = t[i]

--------------------------------------------------------------------------
(* C1 .. C10 *)

\* the number of steps a request at position p can still take, at most
StepsLeft(p) ==
    CASE p = "request"       -> 7
      [] p = "classify_task" -> 6
      [] p = "choose_model"  -> 5
      [] p = "execute"       -> 4
      [] p = "verify"        -> 3
      [] p = "fallback"      -> 2
      [] p = "END"           -> 1
      [] OTHER               -> 0

\* C1: whatever the classifier, search, primary, substitute and fallback
\* calls answer, the run terminates (an unfinished request can always take a
\* step, and every step brings it closer to its end), and the trace of a run
\* that reached END holds between 3 and 5 records.
C1_TerminatesWithBoundedTrace ==
    /\ [](~ Finished => ENABLED Next)
    /\ [][ StepsLeft(pc') < StepsLeft(pc) ]_vars
    /\ [](Ended => Len(state.trace) \in 3..5)

\* C1 witness: a run ended after every provider call failed
C1_Witness_AllCallsFailed ==
    /\ pc = "returned"
    /\ Len(calls) >= 4
    /\ \A i \in 1..Len(calls) : ~ calls[i].ok
    /\ Len(state.trace) \in 3..5

\* C2: leaving the Verifier, the run enters Fallback iff verified is false
\* and fallbackUsed is false, and ends otherwise; Fallback is entered from
\* nowhere else; so an ended run has a Fallback record exactly when the
\* Verifier did not pass.
C2_FallbackIffNotVerified ==
    /\ [][ (pc = "verify" =>
              /\ pc' = "fallback" <=> (~ state'.verification_passed
                                        /\ ~ state'.fallback_attempted)
              /\ pc' # "fallback" => pc' = "END")
           /\ (pc' = "fallback" => pc = "verify") ]_vars
    /\ [](Ended => (HasStep(state.trace, "fallback") <=> ~ VerifierPassed(state.trace)))

\* C2 witness: the Verifier rejected a result and the run is in Fallback
C2_Witness_RoutedToFallback ==
    /\ pc = "fallback"
    /\ HasStep(state.trace, "verify")
    /\ ~ state.verification_passed

\* C3: the stages run in the order Classifier, Router, Executor, Verifier,
\* Fallback; an ended run ran the first four exactly once and Fallback at
\* most once, and nothing runs after Fallback.
C3_FixedStageOrder ==
    /\ [](IsPrefix(stages, StageOrder))
    /\ [](Ended => Len(stages) \in {4, 5})
    /\ [][ (Len(stages) > 0 /\ stages[Len(stages)] = "fallback") => stages' = stages ]_vars

\* C3 witness: a run that went through all five stages and ended
C3_Witness_FiveStages == pc = "END" /\ stages = StageOrder

\* C4: fallbackUsed holds exactly when the trace has a Fallback record; it
\* is never reset; the trace has at most one Fallback record.
C4_FallbackUsedIffRecord ==
    /\ [](state.fallback_attempted <=> HasStep(state.trace, "fallback"))
    /\ [](Cardinality(StepIndexes(state.trace, "fallback")) <= 1)
    /\ [][ state.fallback_attempted => state'.fallback_attempted ]_vars

\* C4 witness: the Fallback call failed and the flag is set all the same
C4_Witness_FlagAfterFailedFallback ==
    /\ state.fallback_attempted
    /\ FallbackFailed(state.trace)

\* C5 as stated: in every reachable state, the final one included,
\* result = None implies verified = false.
C5_NoneImpliesUnverified ==
    state.result = None => ~ state.verification_passed

\* C5 amended: result = None implies verified = false in every state except
\* after a Fallback stage whose call failed, which accepts what it has.
C5_NoneVerifiedOnlyAfterFailedFallback ==
    (state.result = None /\ state.verification_passed) => FallbackFailed(state.trace)

\* C5 witness: the Verifier was handed result = None and rejected it
C5_Witness_NoneRejected ==
    /\ pc = "fallback"
    /\ state.result = None
    /\ ~ state.verification_passed

\* C6: the Fallback stage leaves fallbackUsed and verified both true,
\* whether its call succeeds or fails; so every ended run has verified = true.
C6_FallbackForcesVerified ==
    /\ [][ pc = "fallback" =>
             (state'.fallback_attempted /\ state'.verification_passed) ]_vars
    /\ [](Ended => state.verification_passed)

\* C6 witness: an ended run whose Fallback call failed, verified all the same
C6_Witness_VerifiedAfterFailedFallback ==
    /\ pc = "END"
    /\ FallbackFailed(state.trace)
    /\ state.verification_passed

\* C7: a Fallback stage whose call fails changes fallbackUsed, verified and
\* the trace only: result, chosenBackend, scoreboard and the rest stay.
C7_FailedFallbackFrame ==
    [][ (pc = "fallback" /\ FallbackFailed(state'.trace)) =>
          /\ state'.result = state.result
          /\ state'.chosen_model = state.chosen_model
          /\ state'.scoreboard = state.scoreboard
          /\ state'.task_spec = state.task_spec
          /\ state'.task = state.task
          /\ state'.input = state.input
          /\ state'.mode = state.mode
          /\ SubSeq(state'.trace, 1, Len(state.trace)) = state.trace ]_vars

\* C7 witness: the Fallback call failed and an earlier text is still the result
C7_Witness_ResultKept ==
    /\ FallbackFailed(state.trace)
    /\ state.result # None
    /\ state.result[1] # <<>>

\* C8: with a valid configuration no raise leaves the pipeline: the request
\* never ends in an error, a returned request carries a response, and the
\* placeholder appears only in runs where a provider call failed.
C8_NoErrorOnceConfigured ==
    /\ get_model_access_key(env).ok => pc # "raised"
    /\ pc = "returned" =>
          /\ response # None
          /\ response[1].kind = "response"
          /\ response[1].final = Placeholder =>
                \E i \in 1..Len(calls) : ~ calls[i].ok

\* C8 witness: every provider call failed and a response was returned
C8_Witness_ResponseAfterAllFailures ==
    /\ pc = "returned"
    /\ response[1].kind = "response"
    /\ response[1].final = Placeholder
    /\ Len(GenerationCalls("execute")) = 2
    /\ \A i \in 1..Len(calls) : ~ calls[i].ok

\* some generation call of the Executor or of Fallback returned a text
ProducedText ==
    \E i \in 1..Len(calls) :
        /\ calls[i].stage \in {"execute", "fallback"}
        /\ calls[i].adapter \in {"do", "gemini"}
        /\ calls[i].text # <<>>

\* C9: finalText is the placeholder iff neither the Executor (primary or
\* substitute call) nor Fallback produced a text; the placeholder is
\* returned only after Fallback was attempted and failed.
C9_PlaceholderIffNoText ==
    pc = "returned" =>
        /\ response[1].final = Placeholder <=> ~ ProducedText
        /\ response[1].final = Placeholder =>
              (state.fallback_attempted /\ FallbackFailed(state.trace))

\* C9 witness: a returned placeholder after an empty reply and a failed Fallback
C9_Witness_PlaceholderReturned ==
    /\ pc = "returned"
    /\ response[1].final = Placeholder
    /\ state.result = Some(<<>>)

\* the call failed in the sense of the specification: it raised, or it
\* returned empty content
CallFailed(c) == ~ c.ok \/ c.text = <<>>

\* C10 as stated: when the Executor's primary call fails (timeout, status,
\* malformed response, empty content) the Executor makes exactly one
\* substitute call, to the fallback backend, with the same messages; when
\* that call succeeds its text is the result the Verifier is handed.
C10_SubstituteOnPrimaryFailure ==
    (pc = "verify" /\ CallFailed(GenerationCalls("execute")[1])) =>
        /\ Len(GenerationCalls("execute")) = 2
        /\ GenerationCalls("execute")[2].adapter = "do"
        /\ GenerationCalls("execute")[2].model = FALLBACK_MODEL
        /\ GenerationCalls("execute")[2].messages = GenerationCalls("execute")[1].messages
        /\ GenerationCalls("execute")[2].ok =>
              state.result = Some(GenerationCalls("execute")[2].text)

--------------------------------------------------------------------------
(* C11 .. C20 *)

\* the calls made so far to the chat adapters by the Executor both raised:
\* the primary call and the substitute call
ExecuteBothRaised ==
    /\ Len(GenerationCalls("execute")) = 2
    /\ ~ GenerationCalls("execute")[1].ok
    /\ ~ GenerationCalls("execute")[2].ok

\* C11: when the Executor's primary call and its substitute call both raise,
\* the Executor leaves result absent, appends one trace record that carries
\* the message of each of the two errors, raises nothing, and the run goes on
\* to the Verifier.
C11_DoubleFailureContinues ==
    [][ (pc = "execute" /\ ExecuteBothRaised') =>
            /\ pc' = "verify"
            /\ response' = None
            /\ state'.result = None
            /\ Len(state'.trace) = Len(state.trace) + 1
            /\ state'.trace[Len(state'.trace)].step = "execute"
            /\ state'.trace[Len(state'.trace)].data =
                   [ error |-> GenerationCalls("execute")[1].error',
                     fallback_error |-> GenerationCalls("execute")[2].error' ] ]_vars

\* C11 witness: the Verifier is about to run after both Executor calls raised
C11_Witness_BothRaised ==
    /\ pc = "verify"
    /\ ExecuteBothRaised
    /\ state.result = None
    /\ "fallback_error" \in DOMAIN state.trace[Len(state.trace)].data

\* C12 as stated: every invocation of a stage lengthens the trace by exactly
\* one record, the Verifier invoked with an absent or empty result included.
C12_OneRecordPerStage ==
    [][ stages' # stages => Len(state'.trace) = Len(state.trace) + 1 ]_vars

\* C13: the trace only grows at its end: a step never reorders, rewrites or
\* removes a record, so the trace before any step is a prefix of the trace
\* after it.
C13_TraceAppendOnly ==
    [][ IsPrefix(state.trace, state'.trace) ]_vars

\* C13 witness: a run that ended with the records of all five stages, in the
\* order the stages ran
C13_Witness_FiveRecordsInOrder ==
    /\ pc = "END"
    /\ Len(state.trace) = 5
    /\ \A i \in 1..5 : state.trace[i].step = StageOrder[i]

\* the classification records the Classifier's backend can write so that they
\* pass the schema, each with the classification it stands for (absent
\* needs_citations reads as false, absent confidence as 0.0)
SchemaConforming ==
    [ t \in { "{\"intent\":\"code\",\"format\":\"diff\",\"needs_citations\":false,\"confidence\":0.9}",
              "{\"intent\":\"reasoning\",\"format\":\"json\",\"needs_citations\":true,\"confidence\":0.8}",
              "{\"intent\":\"general\",\"format\":\"text\"}",
              "{\"intent\":\"general\",\"format\":\"text\",\"confidence\":1.5}" } |->
        CASE t = "{\"intent\":\"code\",\"format\":\"diff\",\"needs_citations\":false,\"confidence\":0.9}"
               -> [intent |-> "code", format |-> "diff", needs_citations |-> FALSE, confidence |-> 9]
          [] t = "{\"intent\":\"reasoning\",\"format\":\"json\",\"needs_citations\":true,\"confidence\":0.8}"
               -> [intent |-> "reasoning", format |-> "json", needs_citations |-> TRUE, confidence |-> 8]
          [] t = "{\"intent\":\"general\",\"format\":\"text\"}"
               -> [intent |-> "general", format |-> "text", needs_citations |-> FALSE, confidence |-> 0]
          [] t = "{\"intent\":\"general\",\"format\":\"text\",\"confidence\":1.5}"
               -> [intent |-> "general", format |-> "text", needs_citations |-> FALSE, confidence |-> 15] ]

\* the default classification, with the confidence given in tenths
DefaultClassification(confidence) ==
    [intent |-> "general", format |-> "text", needs_citations |-> FALSE,
     confidence |-> confidence]

\* the call c of the Classifier returned a schema-conforming record
ReturnedConforming(c) ==
    /\ c.ok
    /\ Len(SelectSeq(c.text, IsNotWhitespace)) = 1
    /\ SelectSeq(c.text, IsNotWhitespace)[1] \in DOMAIN SchemaConforming

\* the call c of the Classifier returned, but not a schema-conforming record
ReturnedUnusable(c) == c.ok /\ ~ ReturnedConforming(c)

\* C14: the Classifier never halts the run and always leaves a classification:
\* the default with confidence 0.3 when its backend call fails, the default
\* with confidence 0.5 when the call returns but its content cannot be parsed
\* or does not conform to the schema, and the parsed record otherwise.
C14_ClassifierAlwaysClassifies ==
    [][ pc = "classify_task" =>
            /\ pc' = "choose_model"
            /\ Len(calls') = 1
            /\ ~ calls'[1].ok => state'.task_spec = Some(DefaultClassification(3))
            /\ ReturnedUnusable(calls'[1]) =>
                   state'.task_spec = Some(DefaultClassification(5))
            /\ ReturnedConforming(calls'[1]) =>
                   state'.task_spec =
                       Some(SchemaConforming[SelectSeq(calls'[1].text, IsNotWhitespace)[1]]) ]_vars

\* C14 witness: the backend returned a record whose intent is outside the
\* schema, and the run went on with the default of confidence 0.5
C14_Witness_SchemaFailure ==
    /\ pc = "choose_model"
    /\ calls[1].ok
    /\ calls[1].text = <<"{\"intent\":\"chat\",\"format\":\"text\",\"confidence\":0.9}">>
    /\ state.task_spec = Some(DefaultClassification(5))

\* C15 as stated: whenever the Classifier substitutes the default
\* classification, after a failed call as well as after a reply that cannot be
\* parsed or does not conform to the schema, its trace record carries the
\* error and the substituted default in place of a parsed classification.
C15_DefaultRecordedWithError ==
    (Len(calls) >= 1 /\ ~ ReturnedConforming(calls[1])) =>
        /\ state.trace[1].step = "classify_task"
        /\ DOMAIN state.trace[1].data = {"error", "fallback"}
        /\ state.trace[1].data.fallback = state.task_spec[1]

\* the backend the Router's table gives for a task, an input of the given
\* number of characters, and a long-context provider that is or is not
\* configured
RouterTable(task, chars, configured) ==
    CASE task = "solve"     -> "deepseek-r1-distill-llama-70b"
      [] task = "code"      -> "anthropic-claude-sonnet-4"
      [] task = "rewrite"   -> "mistral-small-3.1-24b-instruct"
      [] task = "research"  -> "perplexity"
      [] task = "summarize" ->
            IF ~ configured THEN "llama3.3-70b-instruct"
            ELSE IF chars \div 4 > 10000 THEN "gemini:gemini-2.5-pro"
            ELSE "gemini:gemini-2.5-flash"
      [] OTHER              -> "llama3.3-70b-instruct"

\* C16: the Router's selection is a function of the task, the input and the
\* configuration alone, whatever the classification and the rest of the
\* state: solve, code and rewrite get their dedicated backends and research
\* gets the search pseudo-backend.
C16_RouterTableDriven ==
    [][ pc = "choose_model" =>
            state'.chosen_model =
                Some(RouterTable(state.task, len(state.input),
                                 env.GEMINI_API_KEY # None)) ]_vars

\* C16 witness: a research request classified as code with a diff format was
\* routed to the search pseudo-backend
C16_Witness_ResearchIgnoresClassification ==
    /\ pc = "execute"
    /\ state.task = "research"
    /\ state.task_spec[1].intent = "code"
    /\ state.chosen_model = Some("perplexity")

\* C17 as stated: for a summarize task the Router selects the long-context
\* provider only when the input is longer than LONG_CONTEXT_THRESHOLD
\* characters and the provider is configured; otherwise it selects the
\* fallback backend.
C17_LongContextOnlyAboveThreshold ==
    [][ (pc = "choose_model" /\ state.task = "summarize") =>
            IF len(state.input) > LONG_CONTEXT_THRESHOLD /\ is_gemini_available(env)
            THEN IsGeminiRoute(state'.chosen_model[1])
            ELSE state'.chosen_model = Some(FALLBACK_MODEL) ]_vars

\* the task values the Router's table has an entry for
KnownTasks == {"summarize", "research", "solve", "code", "rewrite"}

\* the trace record carries a note of warning level
HasWarningNote(record) ==
    \E k \in DOMAIN record.data : k \in {"warning", "warnings", "note", "level"}

\* the Router moved an unknown task on to the Executor with the fallback backend
UnknownTaskRouted ==
    /\ pc' = "execute"
    /\ state'.chosen_model = Some("llama3.3-70b-instruct")
    /\ Len(state'.trace) = Len(state.trace) + 1
    /\ state'.trace[Len(state'.trace)].step = "choose_model"

\* C18 as stated: for a task value that matches no table entry the Router
\* selects the fallback backend and its trace record carries a warning-level
\* note about the unknown task, and the run proceeds.
C18_UnknownTaskWarnedInTrace ==
    [][ (pc = "choose_model" /\ state.task \notin KnownTasks) =>
            /\ UnknownTaskRouted
            /\ HasWarningNote(state'.trace[Len(state'.trace)]) ]_vars

\* C18 amended: for a task value that matches no table entry the Router
\* selects the fallback backend and writes its usual trace record, which
\* names the task and the winner and carries no warning note; the run then
\* goes through the remaining stages and returns a response.
C18_UnknownTaskRoutedToFallback ==
    /\ [][ (pc = "choose_model" /\ state.task \notin KnownTasks) =>
               /\ UnknownTaskRouted
               /\ DOMAIN state'.trace[Len(state'.trace)].data =
                      {"winner", "task", "intent", "input_length", "model_mapping"}
               /\ state'.trace[Len(state'.trace)].data.task = state.task
               /\ state'.trace[Len(state'.trace)].data.winner = "llama3.3-70b-instruct"
               /\ ~ HasWarningNote(state'.trace[Len(state'.trace)]) ]_vars
    /\ []((state.task \notin KnownTasks /\ Len(stages) >= 1) =>
             /\ pc # "raised"
             /\ IsPrefix(stages, StageOrder)
             /\ Ended => Len(stages) \in 4..5)

\* C18 witness: a request with the task "translate" was answered after the
\* fallback backend had been selected for it
C18_Witness_UnknownTaskAnswered ==
    /\ pc = "returned"
    /\ state.task = "translate"
    /\ state.trace[2].data.winner = "llama3.3-70b-instruct"
    /\ Len(stages) >= 4

\* the backends the Router can store in chosenBackend
SelectableBackends ==
    { RouterTable(t, n, g) : t \in KnownTasks \cup {"translate"},
                             n \in {12, 40004}, g \in BOOLEAN }

\* the name under which the scoreboard lists a backend
EntryName(backend) ==
    CASE backend \in {"gemini:gemini-2.5-pro", "gemini:gemini-2.5-flash"} -> "Gemini 1.5 Pro"
      [] backend = "perplexity"                     -> "Perplexity"
      [] backend = "deepseek-r1-distill-llama-70b"  -> "DeepSeek R1"
      [] backend = "anthropic-claude-sonnet-4"      -> "Claude Sonnet 4"
      [] backend = "mistral-small-3.1-24b-instruct" -> "Mistral Small"
      [] OTHER                                      -> "Llama 3.3 70B"

\* the cost tier of each listed backend
StaticCostTier(name) ==
    CASE name \in {"Gemini 1.5 Pro", "Perplexity"} -> "low"
      [] name \in {"DeepSeek R1", "Mistral Small"} -> "med"
      [] name = "Claude Sonnet 4"                  -> "high"
      [] OTHER                                     -> "med"

\* the entry carries the winner mark
HasWinnerMark(entry) ==
    entry.notes \in {"(won) Summarize", "(won) Research", "(won) Solve",
                     "(won) Code", "(won) Rewrite"}

\* the positions of the scoreboard that carry the winner mark
MarkedEntries(scoreboard) ==
    { i \in 1..Len(scoreboard) : HasWinnerMark(scoreboard[i]) }

\* every entry of the scoreboard has the cost tier fixed for its backend
CostTiersStatic(scoreboard) ==
    \A i \in 1..Len(scoreboard) :
        scoreboard[i].cost_tier = StaticCostTier(scoreboard[i].model)

\* C19 as stated: after the Router the scoreboard holds one entry for every
\* backend the Router can select, each with its static cost tier, and exactly
\* one entry carries the winner mark, the entry of the chosen backend.
C19_WinnerMarkOnChosenBackend ==
    (pc = "execute") =>
        /\ \A b \in SelectableBackends :
               Cardinality({ i \in 1..Len(state.scoreboard) :
                               state.scoreboard[i].model = EntryName(b) }) = 1
        /\ CostTiersStatic(state.scoreboard)
        /\ Cardinality(MarkedEntries(state.scoreboard)) = 1
        /\ \A i \in MarkedEntries(state.scoreboard) :
               state.scoreboard[i].model = EntryName(state.chosen_model[1])

\* the Executor, about to run, needs search augmentation
NeedsSearch == state.task = "research" \/ state.chosen_model = Some("perplexity")

\* no search call has returned results: none was made for want of a key, or
\* the one made failed
NoSearchResults ==
    \A i \in 1..Len(calls) : calls[i].adapter = "perplexity" => ~ calls[i].ok

\* the system instruction of a generation call carries a search context block
HasSearchContext(c) == Contains(c.messages[1].content, "\n\nWeb Search Results:\n")

\* the Executor ran without search results and finished its stage with no
\* search context in any of its generation calls
DegradedWithoutContext ==
    /\ pc' = "verify"
    /\ response' = None
    /\ Len(GenerationCalls("execute")') >= 1
    /\ \A i \in 1..Len(GenerationCalls("execute")') :
           ~ HasSearchContext(GenerationCalls("execute")'[i])

\* C20 as stated: when search augmentation is needed but the search call
\* fails or no key is configured, the Executor keeps the backend the Router
\* chose, adds no search context and completes its stage.
C20_SearchFailureKeepsChosenBackend ==
    [][ (pc = "execute" /\ NeedsSearch /\ NoSearchResults') =>
            /\ DegradedWithoutContext
            /\ GenerationCalls("execute")'[1].model = state.chosen_model[1] ]_vars

\* C20 amended: when search augmentation is needed but the search call fails
\* or no key is configured, the Executor replaces the backend the Router chose
\* by the fallback backend, adds no search context and no sources, and
\* completes its stage.
C20_SearchFailureUsesFallbackBackend ==
    [][ (pc = "execute" /\ NeedsSearch /\ NoSearchResults') =>
            /\ DegradedWithoutContext
            /\ GenerationCalls("execute")'[1].adapter = "do"
            /\ GenerationCalls("execute")'[1].model = "llama3.3-70b-instruct"
            /\ state'.result # None => ~ Contains(state'.result[1], "**Sources:**") ]_vars

\* C20 witness: a research request whose search call failed was generated by
\* the fallback backend and handed to the Verifier
C20_Witness_SearchFailed ==
    /\ pc = "verify"
    /\ state.task = "research"
    /\ \E i \in 1..Len(calls) : calls[i].adapter = "perplexity" /\ ~ calls[i].ok
    /\ GenerationCalls("execute")[1].model = "llama3.3-70b-instruct"
    /\ GenerationCalls("execute")[1].ok

--------------------------------------------------------------------------
(* C21 .. C30 *)

\* the search calls made so far
SearchCalls == SelectSeq(calls, LAMBDA c : c.adapter = "perplexity")

\* the citation lines for the results from position i on, "[i] title - url",
\* separated by line breaks
RECURSIVE CitationLines(_, _)
CitationLines(results, i) ==
    IF i > Len(results) THEN << >>
    ELSE (IF i > 1 THEN <<"\n">> ELSE << >>)
         \o <<IndexTag[i], " ">> \o results[i].title \o <<" - ">> \o results[i].url
         \o CitationLines(results, i + 1)

\* the heading that separates the generated text from the citation lines
SourcesHeading == <<"\n", "\n", "---", "\n", "**Sources:**", "\n">>

\* the search of this execution returned at least one result
SearchFoundSources ==
    /\ Len(SearchCalls) = 1
    /\ SearchCalls[1].ok
    /\ Len(SearchCalls[1].results) >= 1

\* C21: for a research task whose search returns n >= 1 results and whose
\* synthesis call succeeds, the Executor generates with the reasoning
\* backend, its trace record reports sources_found = n, and the result is the
\* generated text followed by exactly n citation lines [1] .. [n] in the
\* order the search returned them.
C21_ResearchCitesEverySource ==
    [][ (pc = "execute" /\ state.task = "research" /\ SearchFoundSources'
         /\ GenerationCalls("execute")'[1].ok) =>
            /\ GenerationCalls("execute")'[1].adapter = "do"
            /\ GenerationCalls("execute")'[1].model = "deepseek-r1-distill-llama-70b"
            /\ state'.trace[Len(state'.trace)].step = "execute"
            /\ state'.trace[Len(state'.trace)].data.sources_found =
                   Len(SearchCalls[1].results')
            /\ state'.result =
                   Some(GenerationCalls("execute")'[1].text \o SourcesHeading
                        \o CitationLines(SearchCalls[1].results', 1))
            /\ Cardinality({ i \in 1..Len(state'.result[1]) :
                               state'.result[1][i] = " - " })
                   = Len(SearchCalls[1].results') ]_vars

\* C21 witness: a research result with two citation lines handed to the Verifier
C21_Witness_TwoSourcesCited ==
    /\ pc = "verify"
    /\ state.task = "research"
    /\ SearchFoundSources
    /\ Len(SearchCalls[1].results) = 2
    /\ GenerationCalls("execute")[1].ok
    /\ Contains(state.result[1], "[2]")

\* Python: text.endswith(tail)
EndsWith(text, tail) ==
    /\ Len(tail) <= Len(text)
    /\ SubSeq(text, Len(text) - Len(tail) + 1, Len(text)) = tail

\* C22 as stated: on every Executor path that produces a result, the path
\* where the primary call failed and the substitute call succeeded included,
\* the source citations are appended to the result whenever the search of
\* that execution returned sources.
C22_CitationsOnEveryResultPath ==
    [][ (pc = "execute" /\ SearchFoundSources' /\ state'.result # None) =>
            EndsWith(state'.result[1],
                     SourcesHeading \o CitationLines(SearchCalls[1].results', 1)) ]_vars

\* the positions of the scoreboard whose entry holds the given latency and
\* the placeholder quality score 0.9
UpdatedEntries(scoreboard, latency_ms) ==
    { i \in 1..Len(scoreboard) :
        scoreboard[i].latency_ms = latency_ms /\ scoreboard[i].quality = 9 }

\* C23 as stated: on every Executor path that produces a result, the path
\* where the substitute call succeeded after a primary failure included, one
\* scoreboard entry is updated with the latency the producing call reported
\* and the placeholder quality score.
C23_ScoreboardUpdatedOnEveryResultPath ==
    [][ (pc = "execute" /\ state'.result # None) =>
            Cardinality(UpdatedEntries(state'.scoreboard,
                                       state'.trace[Len(state'.trace)].latency_ms)) = 1 ]_vars

\* the text without its whitespace is a JSON document
ParsesAsJSON(text) ==
    SelectSeq(text, IsNotWhitespace) \in
        { <<"{", "}">> } \cup { <<t>> : t \in DOMAIN JsonDocs }

\* the reference predicate of the Verifier for a result (absent, or a text)
\* and an output format
ReferenceVerdict(result, format) ==
    IF result = None THEN FALSE
    ELSE CASE format = "json" -> ParsesAsJSON(result[1])
           [] format = "diff" ->
                  \/ (\E i \in 1..Len(result[1]) : result[1][i] = "---")
                     /\ (\E i \in 1..Len(result[1]) : result[1][i] = "+++")
                  \/ (Len(result[1]) >= 1 /\ result[1][1] = "diff")
           [] format = "text" ->
                  \E i \in 1..Len(result[1]) : result[1][i] \notin {" ", "\n"}

\* C24: the Verifier's verdict is the reference predicate of the result and
\* the format.  A json result "{not json" is rejected with an invalid-JSON
\* note and the run goes to Fallback; an empty text result is rejected.
C24_VerdictIsReferencePredicate ==
    [][ pc = "verify" =>
            /\ state'.verification_passed =
                   ReferenceVerdict(state.result, state.task_spec[1].format)
            /\ (state.task_spec[1].format = "json" /\ state.result = Some(<<"{", "x">>)) =>
                   /\ ~ state'.verification_passed
                   /\ state'.trace[Len(state'.trace)].step = "verify"
                   /\ state'.trace[Len(state'.trace)].data.notes = <<"Invalid JSON">>
                   /\ pc' = "fallback"
            /\ (state.task_spec[1].format = "text" /\ state.result = Some(<< >>)) =>
                   ~ state'.verification_passed ]_vars

\* C24 witness: the Verifier rejected "{not json" for the json format and the
\* run is about to enter Fallback
C24_Witness_InvalidJSONRejected ==
    /\ pc = "fallback"
    /\ state.task_spec[1].format = "json"
    /\ state.result = Some(<<"{", "x">>)
    /\ ~ state.verification_passed
    /\ state.trace[Len(state.trace)].data.notes = <<"Invalid JSON">>

\* C25: a missing model access key is detected before any stage runs: the
\* request fails with an error response and no Classifier, Router, Executor,
\* Verifier or Fallback step is executed for it.
C25_MissingKeyStopsBeforeStages ==
    /\ [][ (pc = "request" /\ env.MODEL_ACCESS_KEY = None) =>
               /\ pc' = "raised"
               /\ response'[1].kind = "error"
               /\ response'[1].status_code = 500 ]_vars
    /\ [](env.MODEL_ACCESS_KEY = None =>
             /\ stages = << >>
             /\ calls = << >>
             /\ state.trace = << >>
             /\ state.task_spec = None
             /\ pc \in {"request", "raised"})

\* C25 witness: a request failed for want of the key, with no stage run
C25_Witness_FailedBeforeStages ==
    /\ pc = "raised"
    /\ env.MODEL_ACCESS_KEY = None
    /\ stages = << >>
    /\ response[1].status_code = 500

\* the backend names and cost tiers of a scoreboard, in order
Listing(scoreboard) ==
    [ i \in 1..Len(scoreboard) |->
        <<scoreboard[i].model, scoreboard[i].cost_tier>> ]

\* C28: once the Router has built the scoreboard, the Executor, the Verifier
\* and Fallback keep the number and the order of its entries and each
\* entry's backend name and cost tier; only latency, quality and note change.
C28_ScoreboardEntriesKept ==
    [][ (pc \in {"execute", "verify", "fallback", "END"}) =>
            /\ Listing(state'.scoreboard) = Listing(state.scoreboard)
            /\ (\A i \in 1..Len(state.scoreboard) :
                    DOMAIN state'.scoreboard[i] = DOMAIN state.scoreboard[i]) ]_vars

\* C28 witness: a run ended after the Executor annotated an entry and a
\* successful Fallback went over the scoreboard
C28_Witness_AnnotatedThenFallback ==
    /\ pc = "END"
    /\ Len(state.scoreboard) = 5
    /\ \E i \in 1..5 : state.scoreboard[i].quality = 9
    /\ state.fallback_attempted
    /\ ~ FallbackFailed(state.trace)

\* C29: task and input never change during a run, and the classification,
\* once the Classifier has set it, is never changed by a later stage.
C29_RequestAndClassificationFixed ==
    [][ /\ state'.task = state.task
        /\ state'.input = state.input
        /\ state.task_spec # None => state'.task_spec = state.task_spec ]_vars

\* C29 witness: a run that went through all five stages ended with the
\* classification its Classifier had parsed
C29_Witness_ClassificationKept ==
    /\ pc = "END"
    /\ Len(stages) = 5
    /\ calls[1].ok
    /\ state.task_spec =
           Some([intent |-> "code", format |-> "diff", needs_citations |-> FALSE,
                 confidence |-> 9])
    /\ state.task_spec[1] = state.trace[1].data

\* the name shown for the backend that served generation call c
ShownName(c) ==
    IF c.adapter = "gemini" THEN "Gemini " \o c.model
    ELSE CASE c.model = "anthropic-claude-sonnet-4"      -> "Claude Sonnet 4"
           [] c.model = "deepseek-r1-distill-llama-70b"  -> "DeepSeek R1"
           [] c.model = "mistral-small-3.1-24b-instruct" -> "Mistral Small"
           [] c.model = "llama3.3-70b-instruct"          -> "Llama 3.3 70B"
           [] OTHER                                      -> c.model

\* the search of this execution succeeded, so generation was rerouted to the
\* synthesis backend
Rerouted == Len(SearchCalls) = 1 /\ SearchCalls[1].ok

\* C30 as stated: the Executor changes chosenBackend only on a research
\* reroute or on a fallback substitution after a failure; when its primary
\* call succeeds with no reroute, chosenBackend still is the identifier the
\* Router set.
C30_ChosenBackendKeptWithoutReroute ==
    [][ (pc = "execute" /\ GenerationCalls("execute")'[1].ok /\ ~ Rerouted') =>
            state'.chosen_model = state.chosen_model ]_vars

\* C30 amended: the Executor overwrites chosenBackend on every path that
\* produces a result: with the display name of the backend that served the
\* primary call (after "Perplexity + " when the search succeeded) when that
\* call returns, and with "Llama 3.3 70B (fallback)" when only the substitute
\* call returns; it keeps the Router's identifier only when both calls fail.
C30_ChosenBackendBecomesDisplayName ==
    [][ pc = "execute" =>
            /\ (GenerationCalls("execute")'[1].ok /\ ~ Rerouted') =>
                   state'.chosen_model =
                       Some(ShownName(GenerationCalls("execute")'[1]))
            /\ (GenerationCalls("execute")'[1].ok /\ Rerouted') =>
                   state'.chosen_model =
                       Some("Perplexity + " \o ShownName(GenerationCalls("execute")'[1]))
            /\ (~ GenerationCalls("execute")'[1].ok /\ GenerationCalls("execute")'[2].ok) =>
                   state'.chosen_model = Some("Llama 3.3 70B (fallback)")
            /\ (~ GenerationCalls("execute")'[1].ok /\ ~ GenerationCalls("execute")'[2].ok) =>
                   state'.chosen_model = state.chosen_model
            /\ (GenerationCalls("execute")'[1].ok /\ state.task # "research") =>
                   /\ state'.chosen_model # state.chosen_model
                   /\ GenerationCalls("execute")'[1].model \in
                          { state.chosen_model[1], "gemini-2.5-flash", "gemini-2.5-pro" } ]_vars

\* C30 witness: a code request whose primary call succeeded reached the
\* Verifier with the display name in place of the Router's identifier
C30_Witness_DisplayNameAfterSuccess ==
    /\ pc = "verify"
    /\ state.task = "code"
    /\ GenerationCalls("execute")[1].ok
    /\ state.trace[2].data.winner = "anthropic-claude-sonnet-4"
    /\ state.chosen_model = Some("Claude Sonnet 4")

\* the run that results from r when it takes the steps of a script on its
\* own, with no other run in the process
RECURSIVE Replay(_, _, _)
Replay(r, script, e) ==
    IF script = << >> THEN r
    ELSE Replay(StepRun(r, r.state, e, Head(script)), Tail(script), e)

\* run i of the pair as it would be had it executed alone with the same
\* provider answers
Alone(i) ==
    Replay(Run(runs[i].state.task, runs[i].state.input, runs[i].state.mode),
           runs[i].script, env)

\* the stage names of a trace, in order
StageNames(trace) == [ k \in 1..Len(trace) |-> trace[k].step ]

\* the run is over
RunOver(r) == r.pc \in {"returned", "raised"}

C31_ConfidenceInUnitInterval ==
    state.task_spec # None =>
        ( /\ state.task_spec[1].confidence >= 0
          /\ state.task_spec[1].confidence <= 10 )

\* the last stage that ran is Fallback and its backend call succeeded
FallbackSucceeded ==
    /\ stages # << >> /\ stages[Len(stages)] = "fallback"
    /\ calls # << >> /\ calls[Len(calls)].stage = "fallback"
    /\ calls[Len(calls)].ok

\* the scoreboard has an entry for the fallback backend, annotated with the
\* given latency and the note 'Used as fallback'
HasFallbackEntry(scoreboard, latency_ms) ==
    \E i \in 1..Len(scoreboard) :
        /\ scoreboard[i].model = FALLBACK_MODEL
        /\ scoreboard[i].latency_ms = latency_ms
        /\ scoreboard[i].notes = "Used as fallback"

\* C32: after a Fallback stage whose backend call succeeded, result is the
\* fallback backend's text, chosen_model is the fallback backend's
\* identifier, and the scoreboard contains an entry for the fallback backend
\* annotated with its latency and the note 'Used as fallback'.
C32_FallbackSuccessRecorded ==
    FallbackSucceeded =>
        /\ state.result = Some(calls[Len(calls)].text)
        /\ state.chosen_model = Some(FALLBACK_MODEL)
        /\ HasFallbackEntry(state.scoreboard,
                            state.trace[Len(state.trace)].latency_ms)

\* the generation calls among cs
Generations(cs) == SelectSeq(cs, LAMBDA c : c.adapter \in {"do", "gemini"})

\* the scoreboard name of the backend that served the generation call c
ProducerName(c) ==
    IF c.adapter = "gemini" THEN "Gemini 1.5 Pro" ELSE EntryName(c.model)

\* the entry named name is the entry of a backend that produced the result
\* of the execution whose calls are cs: the backend of the last generation
\* call, which succeeded, or the search provider when its search succeeded
\* and its results went into that call
EntryOfProducer(name, cs) ==
    /\ Generations(cs) # << >>
    /\ LET c == Generations(cs)[Len(Generations(cs))] IN
       /\ c.ok
       /\ \/ name = ProducerName(c)
          \/ /\ name = "Perplexity"
             /\ \E k \in 1..Len(cs) : cs[k].adapter = "perplexity" /\ cs[k].ok

\* C33: whenever the Executor annotates a scoreboard entry with latency and
\* quality, that entry is the entry of the backend that actually produced
\* the result in that execution, also when the Router or the Executor
\* replaced the task's specialized backend by the fallback backend.
C33_AnnotatedEntryIsProducer ==
    [][ (pc = "execute") =>
            (\A i \in 1..Len(state.scoreboard) :
                 (state'.scoreboard[i] # state.scoreboard[i]) =>
                     EntryOfProducer(state.scoreboard[i].model,
                                     SelectSeq(calls', LAMBDA c : c.stage = "execute"))) ]_vars

\* the generation calls of the Executor and of Fallback that returned
ReturnedGenerations ==
    SelectSeq(calls, LAMBDA c : /\ c.stage \in {"execute", "fallback"}
                                /\ c.adapter \in {"do", "gemini"}
                                /\ c.ok)

\* the generation call c was the Executor's substitute call: a generation
\* call of the Executor failed before it
IsSubstitute(c) ==
    /\ c.stage = "execute"
    /\ \E k \in 1..Len(calls) :
           /\ calls[k].stage = "execute"
           /\ calls[k].adapter \in {"do", "gemini"}
           /\ ~ calls[k].ok

\* the name that stands for the backend of the generation call c: the
\* fallback identifier for a Fallback call, the substitute's label for the
\* Executor's substitute call, and the display name of the backend (after
\* 'Perplexity + ' when the search fed it) for the Executor's primary call
BackendNameOf(c) ==
    IF c.stage = "fallback" THEN FALLBACK_MODEL
    ELSE IF IsSubstitute(c) THEN "Llama 3.3 70B (fallback)"
    ELSE (IF \E k \in 1..Len(calls) : calls[k].adapter = "perplexity" /\ calls[k].ok
          THEN "Perplexity + " ELSE "")
         \o (IF c.adapter = "gemini" THEN "Gemini " \o c.model
             ELSE IF c.model \in DOMAIN MODEL_NAMES THEN MODEL_NAMES[c.model]
             ELSE c.model)

\* C34: whenever the response's final text is not the placeholder,
\* winner_model names the backend whose call produced that text: the primary
\* backend's display name after a primary success, the fallback backend
\* after a substitution by the Executor or a successful Fallback; a failed
\* Fallback leaves the name of the backend that produced the retained result.
C34_WinnerIsProducer ==
    ( /\ pc = "returned"
      /\ response[1].kind = "response"
      /\ response[1].final # Placeholder ) =>
        /\ ReturnedGenerations # << >>
        /\ LET c == ReturnedGenerations[Len(ReturnedGenerations)] IN
           /\ IsPrefix(c.text, response[1].final)
           /\ response[1].winner_model = BackendNameOf(c)

\* C34 witness: the Executor's text failed verification, Fallback failed
\* too, and the response returns the Executor's text under its backend's name
C34_Witness_RetainedAfterFailedFallback ==
    /\ pc = "returned"
    /\ response[1].kind = "response"
    /\ response[1].final # Placeholder
    /\ FallbackFailed(state.trace)
    /\ response[1].winner_model \notin {FALLBACK_MODEL, "none"}

\* the chat models served by the DigitalOcean adapter that the pipeline uses
ChatModels ==
    { ROUTER_MODEL, TASK_MODELS["solve"], TASK_MODELS["code"],
      TASK_MODELS["rewrite"], FALLBACK_MODEL }

\* the pseudo-identifiers that stand for the search and long-context providers
PseudoModels ==
    { "perplexity", "gemini" } \cup { "gemini:" \o g : g \in GeminiIds }

\* C35: every model identifier passed to the DigitalOcean chat-completion
\* adapter is a real chat model; 'perplexity', 'gemini' and 'gemini:<model>'
\* are never sent to it, for any task, key configuration and search outcome.
C35_OnlyChatModelsSentToAdapter ==
    \A k \in 1..Len(calls) :
        calls[k].adapter = "do" =>
            /\ calls[k].model \in ChatModels
            /\ calls[k].model \notin PseudoModels

\* C35 witness: a research run searched successfully and then called the
\* DigitalOcean adapter in its Executor, although the Router chose 'perplexity'
C35_Witness_ResearchCallsChatModel ==
    /\ state.task = "research"
    /\ \E k \in 1..Len(calls) : calls[k].adapter = "perplexity" /\ calls[k].ok
    /\ \E k \in 1..Len(calls) :
           /\ calls[k].stage = "execute" /\ calls[k].adapter = "do"
           /\ calls[k].model = TASK_MODELS["solve"]
    /\ \E i \in 1..Len(state.trace) :
           /\ state.trace[i].step = "choose_model"
           /\ state.trace[i].data.winner = "perplexity"

\* the calls of the history made by a stage to one of the given adapters
CallsOf(stage, adapters) ==
    SelectSeq(calls, LAMBDA c : c.stage = stage /\ c.adapter \in adapters)

\* the bounds on the calls of a run and the order inside the Executor: one
\* classifier call, one search call, two generation calls in the Executor,
\* the second made to the fallback model after the first failed, and one
\* generation call in Fallback
CallBudget ==
    /\ Len(CallsOf("classify_task", {"do", "gemini", "perplexity"})) <= 1
    /\ Len(SelectSeq(calls, LAMBDA c : c.adapter = "perplexity")) <= 1
    /\ Len(CallsOf("execute", {"do", "gemini"})) <= 2
    /\ Len(CallsOf("fallback", {"do", "gemini", "perplexity"})) <= 1
    /\ Len(CallsOf("choose_model", {"do", "gemini", "perplexity"})) = 0
    /\ Len(CallsOf("verify", {"do", "gemini", "perplexity"})) = 0
    /\ Len(CallsOf("execute", {"do", "gemini"})) = 2 =>
           /\ ~ CallsOf("execute", {"do", "gemini"})[1].ok
           /\ CallsOf("execute", {"do", "gemini"})[2].model = FALLBACK_MODEL
           /\ CallsOf("execute", {"do", "gemini"})[2].adapter = "do"

\* C36: a single run makes at most one classifier call, at most one search
\* call, at most two generation calls inside the Executor and at most one
\* generation call in Fallback; the substitute call happens only after the
\* primary call failed, and the Fallback call only in the step after the
\* Verifier ran and reported failure.
C36_CallBudgetAndOrder ==
    [][ /\ CallBudget'
        /\ (Len(CallsOf("fallback", {"do", "gemini", "perplexity"}))' >
              Len(CallsOf("fallback", {"do", "gemini", "perplexity"}))) =>
               /\ stages # << >> /\ stages[Len(stages)] = "verify"
               /\ ~ state.verification_passed ]_vars

\* C36 witness: a run used its whole budget: classifier call, search call,
\* failed primary call, substitute call, and the Fallback call after the
\* Verifier rejected the substitute's text
C36_Witness_EveryCallMade ==
    /\ Len(CallsOf("classify_task", {"do"})) = 1
    /\ Len(CallsOf("execute", {"perplexity"})) = 1
    /\ Len(CallsOf("execute", {"do", "gemini"})) = 2
    /\ CallsOf("execute", {"do", "gemini"})[2].ok
    /\ Len(CallsOf("fallback", {"do"})) = 1
    /\ HasStep(state.trace, "verify")

\* C37: the result the Executor stores is either None or a non-empty text:
\* an empty-content reply from any backend adapter, the long-context adapter
\* included, is treated as a failure that triggers the substitute call and
\* is never stored as result.
C37_StoredResultNeverEmpty ==
    [][ (pc = "execute") =>
            /\ state'.result # None => state'.result[1] # << >>
            /\ (\A k \in 1..Len(calls') :
                    ( /\ calls'[k].stage = "execute"
                      /\ calls'[k].adapter \in {"do", "gemini"}
                      /\ calls'[k].text = << >> ) =>
                        \/ k < Len(calls')
                        \/ calls'[k].model = FALLBACK_MODEL /\ ~ calls'[k].ok) ]_vars

\* the verdict of the Verifier on a text under an output format
VerdictOn(text, format) ==
    IF text = << >> THEN FALSE ELSE VerifyPassed(text, format)

\* C38: appending source citations does not change the verification
\* verdict: for a research execution with at least one source whose primary
\* call returned, the Verifier's verdict on the stored result equals its
\* verdict on the backend's generated text alone, under the format of the
\* classification (json, diff or text).
C38_CitationsKeepVerdict ==
    [][ ( /\ pc = "execute"
          /\ state.task = "research"
          /\ SearchFoundSources'
          /\ Len(GenerationCalls("execute")') = 1
          /\ GenerationCalls("execute")'[1].ok ) =>
            VerdictOn(state'.result[1], state.task_spec[1].format)
              = VerdictOn(GenerationCalls("execute")'[1].text,
                          state.task_spec[1].format) ]_vars

\* the modes a request can name
RequestModes == {"best", "fast", "cheap"}

\* the classifications the Classifier can store: those it parsed and its
\* two defaults
Classifications ==
    { SchemaConforming[t] : t \in DOMAIN SchemaConforming }
    \cup { DefaultClassification(3), DefaultClassification(5) }

\* what the Router would store for the run at hand had its request named
\* the mode m and had its Classifier stored the classification ts
RouterOutcome(m, ts) ==
    choose_model(env, [state EXCEPT !.mode = m, !.task_spec = Some(ts)]).upd

\* C39: the Router's chosen backend and scoreboard depend only on the task,
\* the input length and whether the long-context provider is configured: a
\* run that differs from the one at hand only in its mode or in the
\* classification gets the same chosen backend and the same scoreboard.
C39_RouterIgnoresModeAndClassification ==
    [][ (pc = "choose_model") =>
            (\A m \in RequestModes, ts \in Classifications :
                 /\ RouterOutcome(m, ts).chosen_model = state'.chosen_model
                 /\ RouterOutcome(m, ts).scoreboard = state'.scoreboard) ]_vars

\* C39 witness: the Router has routed a rewrite request that the Classifier
\* took for code with a diff output to the rewrite backend
C39_Witness_RewriteClassifiedAsCode ==
    /\ pc = "execute"
    /\ state.task = "rewrite"
    /\ state.task_spec[1].intent = "code"
    /\ state.task_spec[1].format = "diff"
    /\ state.chosen_model = Some(TASK_MODELS["rewrite"])
    /\ Len(state.scoreboard) = 5

\* the backend the jury Router is to select for an intent
JuryTable(intent) ==
    CASE intent = "code"      -> "llama3.3-70b-instruct"
      [] intent = "reasoning" -> "deepseek-r1-distill-llama-70b"
      [] OTHER                -> "llama3.3-70b-instruct"

\* the models of the scoreboard entries that carry a note
NotedModels(scoreboard) ==
    { scoreboard[i].model : i \in { k \in 1..Len(scoreboard) : scoreboard[k].notes # "" } }

\* the step from state to state' is one the agent variant's Verifier and
\* branch decision take from the same state
AgentVerifyStep ==
    /\ state' = Merge(state, verify(state).upd)
    /\ pc' = NextNode("verify", Merge(state, verify(state).upd))

\* the step from state to state' is one the agent variant's Fallback takes
\* from the same state for some reply of the fallback backend
AgentFallbackStep ==
    \E reply \in Replies :
        /\ state' = Merge(state, fallback(env, state, reply).upd)
        /\ calls' = calls \o fallback(env, state, reply).calls
        /\ pc' = NextNode("fallback", state')

\* C40: in the jury variant the Router selects the backend from the
\* classification intent alone (code the coding model, reasoning the
\* reasoning model, anything else the fallback model), its scoreboard marks
\* exactly the chosen model, and its Executor makes one call and no
\* substitute call: a failed primary call leaves result = None directly; its
\* Verifier, Fallback and branch decision step as the agent variant's do.
C40_JuryVariant ==
    [][ /\ (pc = "choose_model") =>
               /\ state'.chosen_model = Some(JuryTable(state.task_spec[1].intent))
               /\ NotedModels(state'.scoreboard) = {state'.chosen_model[1]}
               /\ \A i \in 1..Len(state'.scoreboard) :
                      state'.scoreboard[i].model = state'.chosen_model[1]
                          => state'.scoreboard[i].notes # ""
        /\ (pc = "execute") =>
               /\ Len(calls') = Len(calls) + 1
               /\ calls'[Len(calls')].model = state.chosen_model[1]
               /\ state'.result = IF calls'[Len(calls')].ok
                                  THEN Some(calls'[Len(calls')].text) ELSE None
        /\ (pc = "verify") => AgentVerifyStep
        /\ (pc = "fallback") => AgentFallbackStep ]_vars

\* C40 witness: a jury run classified as reasoning chose the reasoning
\* model, its only Executor call failed and left no result, the Verifier
\* rejected and Fallback answered
C40_Witness_FailedPrimaryThenFallback ==
    /\ pc = "END"
    /\ state.task_spec[1].intent = "reasoning"
    /\ \E i \in 1..Len(state.trace) :
           /\ state.trace[i].step = "choose_model"
           /\ state.trace[i].data = [winner |-> REASONING_MODEL, intent |-> "reasoning"]
    /\ Len(CallsOf("execute", {"do"})) = 1
    /\ ~ CallsOf("execute", {"do"})[1].ok
    /\ Len(CallsOf("fallback", {"do"})) = 1
    /\ CallsOf("fallback", {"do"})[1].ok
    /\ state.chosen_model = Some(FALLBACK_MODEL)

====
